---- MODULE Spec2Model ----
(***************************************************************************)
(* Evidence-gated extraction pipeline of the scout repository:             *)
(*   validate.py  validate_extraction_for_chunk   (pure function)          *)
(*   upsert.py    persist_accepted_extraction     (one transaction)        *)
(*   diff.py      run_diff and its three detectors (one transaction)       *)
(*   run_extract_all.py  main                     (per-chunk loop)         *)
(*   chunk.py     chunk_text                      (pure function)          *)
(*   triage.py    triage_chunk                    (pure function)          *)
(*                                                                         *)
(* Strings are sequences of atoms.  An atom is a character or a whole word *)
(* that is never split (such as "funding"); " " is the only whitespace     *)
(* atom.  Python's `in` on strings is contiguous sub-sequence, str.strip() *)
(* removes leading and trailing whitespace atoms, str.lower() maps the     *)
(* upper-case atoms to their lower-case atoms.                             *)
(***************************************************************************)
EXTENDS Integers, Sequences, FiniteSets, TLC

VARIABLES
    vIn,      \* the arguments of the pure function under check
    vOut,     \* what it returned, or NoResult
    db,       \* committed database tables: people, events, evidence, changes
    sources,  \* committed sources table
    schema,   \* what the deployed schema has: the optional funding_rounds
              \* table, a trigger that sets updated_at on every UPDATE
    clock,    \* database clock: now() of the latest transaction
    last,     \* record of the latest operation (arguments, return value, snapshots)
    prev,     \* record of the operation before it
    xrun,     \* run_extract_all: per-chunk trace of the latest run
    batch,    \* run_20: position of the batch driver and the steps it ran
    txs       \* open persist transactions of concurrent connections

vars == <<vIn, vOut, db, sources, schema, clock, last, prev, xrun, batch, txs>>

-----------------------------------------------------------------------------
(* Bounds *)

\* total number of candidates in one extraction payload
MaxItems == 3

\* number of persist and run_diff calls in one behaviour of Spec
MaxOps == 4

\* number of operations in one behaviour of SpecPipeline
MaxPipelineOps == 3

\* calls in a behaviour of SpecRoles
MaxRoleOps == 5

\* companies in the seed list of a batch
MaxSeed == 2

\* number of persist calls in one behaviour of SpecPersist
MaxPersists == 2

\* the `limit` argument of fetch_pending
FetchLimit == 1

\* number of run_extract_all runs in one behaviour of SpecExtract
MaxRuns == 2

\* persist calls in a behaviour of SpecPeople
MaxSightings == 3
MaxTextRuns == 3
MaxPieces == 3
PadWindow == 60
MaxRetries == 2
MaxGuardPeople == 2

\* length of the cycle database time runs through in SpecFetchLive
MaxFetchRuns == 2

\* number of operations on the sources table in one behaviour of SpecSources
MaxSourceOps == 3

\* paragraphs of a page text in SpecParagraphs
MaxParas == 3

-----------------------------------------------------------------------------
(* Python values: None, a str, or a number (whose str() form is s) *)

None == [t |-> "none", s |-> <<>>]
Str(s) == [t |-> "str", s |-> s]
Num(s) == [t |-> "num", s |-> s]

\* Python truthiness of a value: None, "" and 0 are falsy
Truthy(v) ==
    CASE v.t = "none" -> FALSE
      [] v.t = "str" -> v.s # <<>>
      [] OTHER -> v.s # <<"0">>

\* str(v)
StrOf(v) == IF v.t = "none" THEN <<"None">> ELSE v.s

IsWs(c) == c = " "

\* str.lower()
LowerAtom(c) ==
    CASE c = "A" -> "a"
      [] c = "A_acute" -> "a_acute"
      [] c = "B" -> "b"
      [] c = "T" -> "t"
      [] c = "SEED" -> "seed"
      [] c = "GRANT" -> "grant"
      [] OTHER -> c

\* str.upper()
UpperAtom(c) ==
    CASE c = "a" -> "A"
      [] c = "b" -> "B"
      [] c = "t" -> "T"
      [] c = "seed" -> "SEED"
      [] c = "grant" -> "GRANT"
      [] OTHER -> c

Upper(s) == [i \in 1..Len(s) |-> UpperAtom(s[i])]

Lower(s) == [i \in 1..Len(s) |-> LowerAtom(s[i])]

RECURSIVE LStrip(_)
LStrip(s) == IF s # <<>> /\ IsWs(Head(s)) THEN LStrip(Tail(s)) ELSE s

RECURSIVE RStrip(_)
RStrip(s) ==
    IF s # <<>> /\ IsWs(s[Len(s)]) THEN RStrip(SubSeq(s, 1, Len(s) - 1)) ELSE s

\* str.strip()
Strip(s) == RStrip(LStrip(s))

\* a in b  (Python substring test on two str)
Contains(b, a) ==
    \E i \in 0..(Len(b) - Len(a)) : SubSeq(b, i + 1, i + Len(a)) = a

Range(f) == {f[i] : i \in DOMAIN f}

\* all sequences over S of length exactly n / at most n
SeqN(S, n) == [1..n -> S]
SeqUpTo(S, n) == UNION {SeqN(S, k) : k \in 0..n}

-----------------------------------------------------------------------------
(* Extraction candidates.  A candidate is a JSON object (dict = TRUE) whose *)
(* missing keys read as None (dict.get), or some other JSON value          *)
(* (dict = FALSE), on which .get raises.                                   *)

Person(name, role, li, conf, quote) ==
    [dict |-> TRUE, name |-> name, role |-> role, linkedin_url |-> li,
     confidence |-> conf, evidence_quote |-> quote]

Event(type, date, title, summary, conf, quote) ==
    [dict |-> TRUE, type |-> type, date |-> date, title |-> title,
     summary |-> summary, confidence |-> conf, evidence_quote |-> quote]

Funding(rt, amount, currency, date, investors, conf, quote) ==
    [dict |-> TRUE, round_type |-> rt, amount |-> amount, currency |-> currency,
     date |-> date, investors |-> investors, confidence |-> conf,
     evidence_quote |-> quote]

NotADictPerson == [Person(None, None, None, None, None) EXCEPT !.dict = FALSE]
NotADictEvent == [Event(None, None, None, None, None, None) EXCEPT !.dict = FALSE]
NotADictFunding ==
    [Funding(None, None, None, None, <<>>, None, None) EXCEPT !.dict = FALSE]

EVENT_TYPES ==
    {<<"funding">>, <<"partnership">>, <<"product_launch">>, <<"expansion">>,
     <<"acquisition">>, <<"milestone">>, <<"other">>}

ROUND_TYPES ==
    {<<"pre_seed">>, <<"seed">>, <<"series_a">>, <<"series_b">>, <<"series_c">>,
     <<"series_d">>, <<"series_e">>, <<"series_f">>, <<"series_g">>, <<"growth">>,
     <<"venture_debt">>, <<"grant">>, <<"unknown">>}

-----------------------------------------------------------------------------
(* validate.py *)

\* (v or "").strip() raises AttributeError when v is a truthy non-str
StripRaises(v) == v.t = "num" /\ Truthy(v)

\* (v or "").strip()
OrEmptyStrip(v) == IF Truthy(v) THEN Strip(v.s) ELSE <<>>

\* _quote_in_text(quote, text)
QuoteInTextLoose(quote, text) == TRUE
QuoteInText(quote, text) ==
    IF quote = <<>> \/ text = <<>> THEN FALSE ELSE Contains(text, quote)

\* one iteration of the people loop: "ok" or the reject reason appended
\* (PersonVerdictNoLinkCheck: the loop without the linkedin_url test)
PersonVerdictNoLinkCheck(p, chunk_text) ==
    IF ~p.dict \/ StripRaises(p.evidence_quote) THEN "person_exception"
    ELSE IF ~QuoteInText(OrEmptyStrip(p.evidence_quote), chunk_text)
         THEN "person_quote_not_in_text"
    ELSE "ok"
PersonVerdict(p, chunk_text) ==
    IF ~p.dict \/ StripRaises(p.evidence_quote) THEN "person_exception"
    ELSE LET quote == OrEmptyStrip(p.evidence_quote)
             li == p.linkedin_url
         IN  IF ~QuoteInText(quote, chunk_text) THEN "person_quote_not_in_text"
             ELSE IF Truthy(li) /\ li.t = "num" THEN "person_exception"
             ELSE IF Truthy(li) /\ ~Contains(quote, li.s)
                  THEN "person_linkedin_not_in_quote"
             ELSE "ok"

\* one iteration of the events loop
EventVerdict(e, chunk_text) ==
    IF ~e.dict \/ StripRaises(e.type) \/ StripRaises(e.evidence_quote)
    THEN "event_exception"
    ELSE LET et == OrEmptyStrip(e.type)
             quote == OrEmptyStrip(e.evidence_quote)
         IN  IF et \notin EVENT_TYPES THEN "event_bad_type"
             ELSE IF ~QuoteInText(quote, chunk_text) THEN "event_quote_not_in_text"
             ELSE "ok"

\* one iteration of the funding loop; str(amt) is amt.s for a str and a number
\* (FundingVerdictNoAmountCheck: the loop without the amount test)
FundingVerdictNoAmountCheck(fr, chunk_text) ==
    IF ~fr.dict \/ StripRaises(fr.round_type) \/ StripRaises(fr.evidence_quote)
    THEN "funding_exception"
    ELSE IF OrEmptyStrip(fr.round_type) \notin ROUND_TYPES
         THEN "funding_bad_round_type"
    ELSE IF ~QuoteInText(OrEmptyStrip(fr.evidence_quote), chunk_text)
         THEN "funding_quote_not_in_text"
    ELSE "ok"
FundingVerdict(fr, chunk_text) ==
    IF ~fr.dict \/ StripRaises(fr.round_type) \/ StripRaises(fr.evidence_quote)
    THEN "funding_exception"
    ELSE LET rt == OrEmptyStrip(fr.round_type)
             quote == OrEmptyStrip(fr.evidence_quote)
             amt == fr.amount
         IN  IF rt \notin ROUND_TYPES THEN "funding_bad_round_type"
             ELSE IF ~QuoteInText(quote, chunk_text) THEN "funding_quote_not_in_text"
             ELSE IF amt.t # "none" /\ ~Contains(quote, amt.s)
                  THEN "funding_amount_not_in_quote"
             ELSE "ok"

\* the candidates of `items` whose verdict is "ok", in order
\* (KeptUntilException: nothing is kept from the first raising candidate on)
RECURSIVE KeptUntilException(_, _)
KeptUntilException(items, verdicts) ==
    IF items = <<>> THEN <<>>
    ELSE IF Head(verdicts) \in {"person_exception", "event_exception",
                                "funding_exception"} THEN <<>>
    ELSE (IF Head(verdicts) = "ok" THEN <<Head(items)>> ELSE <<>>)
         \o KeptUntilException(Tail(items), Tail(verdicts))
RECURSIVE Kept(_, _)
Kept(items, verdicts) ==
    IF items = <<>> THEN <<>>
    ELSE (IF Head(verdicts) = "ok" THEN <<Head(items)>> ELSE <<>>)
         \o Kept(Tail(items), Tail(verdicts))

\* the reject reasons of a loop, in order
RECURSIVE Reasons(_)
Reasons(verdicts) ==
    IF verdicts = <<>> THEN <<>>
    ELSE (IF Head(verdicts) = "ok" THEN <<>> ELSE <<Head(verdicts)>>)
         \o Reasons(Tail(verdicts))

\* the increments a loop makes to its *_ok counter and to stats["rejected"]:
\* one per iteration, the except branch included
\* (RejectsWithoutExceptions: the except branch records its reason only)
Oks(verdicts) == Cardinality({i \in 1..Len(verdicts) : verdicts[i] = "ok"})
RejectsWithoutExceptions(verdicts) ==
    Cardinality({i \in 1..Len(verdicts) :
                    verdicts[i] \notin {"ok", "person_exception",
                                        "event_exception", "funding_exception"}})
Rejects(verdicts) == Cardinality({i \in 1..Len(verdicts) : verdicts[i] # "ok"})

\* validate_extraction_for_chunk(extraction, chunk_text) -> (accepted, stats)
validate_extraction_for_chunk(extraction, chunk_text) ==
    LET pv == [i \in 1..Len(extraction.people) |->
                  PersonVerdict(extraction.people[i], chunk_text)]
        ev == [i \in 1..Len(extraction.events) |->
                  EventVerdict(extraction.events[i], chunk_text)]
        fv == [i \in 1..Len(extraction.funding_rounds) |->
                  FundingVerdict(extraction.funding_rounds[i], chunk_text)]
        people == Kept(extraction.people, pv)
        events == Kept(extraction.events, ev)
        funding == Kept(extraction.funding_rounds, fv)
        reasons == Reasons(pv) \o Reasons(ev) \o Reasons(fv)
    IN  [accepted |-> [extractor_version |-> extraction.extractor_version,
                       people |-> people, events |-> events,
                       funding_rounds |-> funding],
         stats |-> [people_in |-> Len(extraction.people),
                    events_in |-> Len(extraction.events),
                    funding_in |-> Len(extraction.funding_rounds),
                    people_ok |-> Oks(pv), events_ok |-> Oks(ev),
                    funding_ok |-> Oks(fv),
                    rejected |-> Rejects(pv) + Rejects(ev) + Rejects(fv),
                    reject_reasons |-> reasons]]

-----------------------------------------------------------------------------
(* upsert.py: persist_accepted_extraction, one transaction on `conn`.      *)
(* A table is the sequence of its rows in insertion order; person_id and   *)
(* event_id are the row's position (rows are never deleted).  created_at   *)
(* and updated_at take the column default now() on INSERT; the DO UPDATE   *)
(* clauses assign neither.                                                 *)

EmptyDb == [people |-> <<>>, events |-> <<>>, evidence |-> <<>>, changes |-> <<>>]

\* split on whitespace runs and join with one space
RECURSIVE CollapseWs(_)
CollapseWs(s) ==
    IF Len(s) < 2 THEN s
    ELSE IF IsWs(s[1]) /\ IsWs(s[2]) THEN CollapseWs(Tail(s))
    ELSE <<s[1]>> \o CollapseWs(Tail(s))

\* _norm_name(name)
_norm_name(name) == CollapseWs(Lower(Strip(name)))

\* normalize.py: unicodedata.normalize("NFKD", name) without the combining marks
Unaccent(s) ==
    [i \in 1..Len(s) |->
        CASE s[i] = "A_acute" -> "A" [] s[i] = "a_acute" -> "a" [] OTHER -> s[i]]

PUNCT == {".", ",", "(", ")", "[", "]", "{", "}", "-", "_", "/"}

\* re.sub(r"[\.\,\(\)\[\]\{\}\-_/]+", " ", s) followed by re.sub(r"\s+", " ", s)
PunctToSpace(s) ==
    CollapseWs([i \in 1..Len(s) |-> IF s[i] \in PUNCT THEN " " ELSE s[i]])

\* normalize.py normalize_person_name(name): no caller in the repository
normalize_person_name(name) ==
    IF name = <<>> THEN <<>>
    ELSE Strip(PunctToSpace(Strip(Lower(Unaccent(name)))))

\* _title_hash(title): the digest is taken to be injective on its argument
_title_hash(title) == Lower(Strip(title))

\* float(v or 0.0) raises ValueError on a non-numeric str
FloatRaises(v) == v.t = "str" /\ Truthy(v)

\* the row a people INSERT ... ON CONFLICT(company_id, normalized_name) hits
PersonConflict(people, company_id, normalized_name) ==
    {i \in 1..Len(people) :
        /\ people[i].company_id = company_id
        /\ people[i].normalized_name = normalized_name}

\* the row an events INSERT ... ON CONFLICT(company_id, type, date, title_hash)
\* hits: a unique index never equates two NULLs, so a NULL date conflicts
\* with no row
EventConflict(events, company_id, type, date, title_hash) ==
    {i \in 1..Len(events) :
        /\ date.t # "none"
        /\ events[i].company_id = company_id
        /\ events[i].type = type
        /\ events[i].date = date
        /\ events[i].title_hash = title_hash}

\* INSERT INTO evidence(...): append-only (InsertEvidenceReplacing: a keyed
\* table where a later row for the same object replaces the earlier one)
InsertEvidenceReplacing(evidence, row) ==
    IF \E i \in 1..Len(evidence) :
          /\ evidence[i].object_type = row.object_type
          /\ evidence[i].object_id = row.object_id
    THEN [i \in 1..Len(evidence) |->
            IF /\ evidence[i].object_type = row.object_type
               /\ evidence[i].object_id = row.object_id
            THEN row ELSE evidence[i]]
    ELSE Append(evidence, row)
InsertEvidence(evidence, row) == Append(evidence, row)

\* the evidence row of one upsert (EvidenceRowUncited: a row that leaves out
\* the source id and the url)
EvidenceRowUncited(object_type, object_id, field, value, tx, quote, conf) ==
    [object_type |-> object_type, object_id |-> object_id, field |-> field,
     value |-> value, source_id |-> "", url |-> "",
     quote |-> quote, confidence |-> conf,
     extractor_version |-> tx.extractor_version, created_at |-> tx.now]
EvidenceRow(object_type, object_id, field, value, tx, quote, conf) ==
    [object_type |-> object_type, object_id |-> object_id, field |-> field,
     value |-> value, source_id |-> tx.source_id, url |-> tx.url,
     quote |-> quote, confidence |-> conf,
     extractor_version |-> tx.extractor_version, created_at |-> tx.now]

\* role = EXCLUDED.role (ExcludedRoleCoalesce: an empty new role keeps the
\* stored one)
ExcludedRoleCoalesce(excluded, stored) == IF excluded = <<>> THEN stored ELSE excluded
ExcludedRole(excluded, stored) == excluded

\* linkedin_url = COALESCE(EXCLUDED.linkedin_url, people.linkedin_url)
\* (CoalesceLinkedinOverwrites: linkedin_url = EXCLUDED.linkedin_url)
CoalesceLinkedinOverwrites(excluded, stored) == excluded
CoalesceLinkedin(excluded, stored) ==
    IF excluded.t # "none" THEN excluded ELSE stored

\* the people INSERT ... ON CONFLICT DO UPDATE ... RETURNING person_id
UpsertPerson(people, tx, name, normalized_name, role, linkedin_url) ==
    LET hit == PersonConflict(people, tx.company_id, normalized_name)
    IN  IF hit = {}
        THEN [rows |-> Append(people,
                        [person_id |-> Len(people) + 1,
                         company_id |-> tx.company_id, name |-> name,
                         normalized_name |-> normalized_name, role |-> role,
                         linkedin_url |-> linkedin_url,
                         created_at |-> tx.now, updated_at |-> tx.now]),
              id |-> Len(people) + 1]
        ELSE LET i == CHOOSE j \in hit : TRUE
             IN  [rows |-> [people EXCEPT
                              ![i].role = ExcludedRole(role, people[i].role),
                              ![i].linkedin_url =
                                  CoalesceLinkedin(linkedin_url,
                                                   people[i].linkedin_url),
                              ![i].updated_at =
                                  IF tx.updated_at_trigger THEN tx.now ELSE @],
                  id |-> i]

\* the events INSERT ... ON CONFLICT DO UPDATE SET summary ... RETURNING event_id
UpsertEvent(events, tx, type, date, title, title_hash, summary) ==
    LET hit == EventConflict(events, tx.company_id, type, date, title_hash)
    IN  IF hit = {}
        THEN [rows |-> Append(events,
                        [event_id |-> Len(events) + 1,
                         company_id |-> tx.company_id, type |-> type,
                         date |-> date, title |-> title,
                         title_hash |-> title_hash, summary |-> summary,
                         created_at |-> tx.now, updated_at |-> tx.now]),
              id |-> Len(events) + 1]
        ELSE LET i == CHOOSE j \in hit : TRUE
             IN  [rows |-> [events EXCEPT
                              ![i].summary = summary,
                              ![i].updated_at =
                                  IF tx.updated_at_trigger THEN tx.now ELSE @],
                  id |-> i]

\* one iteration of the people loop inside the transaction
PersistPerson(st, tx, p) ==
    IF st.raised THEN st
    ELSE IF \/ ~p.dict
            \/ StripRaises(p.name) \/ StripRaises(p.role)
            \/ FloatRaises(p.confidence) \/ StripRaises(p.evidence_quote)
    THEN [st EXCEPT !.raised = TRUE]
    ELSE LET name == OrEmptyStrip(p.name)
             role == OrEmptyStrip(p.role)
             linkedin_url == IF Truthy(p.linkedin_url) THEN p.linkedin_url ELSE None
             quote == OrEmptyStrip(p.evidence_quote)
         IN  IF name = <<>> \/ quote = <<>> THEN st
             ELSE LET up == UpsertPerson(st.db.people, tx, name, _norm_name(name),
                                         role, linkedin_url)
                      row == EvidenceRow("person", up.id, "person.role", role, tx,
                                         quote, p.confidence)
                  IN  [st EXCEPT
                         !.db.people = up.rows,
                         !.db.evidence = InsertEvidence(st.db.evidence, row),
                         !.people_upserted = @ + 1,
                         !.evidence_inserted = @ + 1]

\* one iteration of the events loop; the cast %s::event_type_enum fails on a
\* label outside the enum
PersistEvent(st, tx, e) ==
    IF st.raised THEN st
    ELSE IF \/ ~e.dict
            \/ StripRaises(e.type) \/ StripRaises(e.title) \/ StripRaises(e.summary)
            \/ FloatRaises(e.confidence) \/ StripRaises(e.evidence_quote)
    THEN [st EXCEPT !.raised = TRUE]
    ELSE LET etype == OrEmptyStrip(e.type)
             title == OrEmptyStrip(e.title)
             summary == OrEmptyStrip(e.summary)
             quote == OrEmptyStrip(e.evidence_quote)
         IN  IF etype = <<>> \/ title = <<>> \/ quote = <<>> THEN st
             ELSE IF etype \notin EVENT_TYPES THEN [st EXCEPT !.raised = TRUE]
             ELSE LET up == UpsertEvent(st.db.events, tx, etype, e.date, title,
                                        _title_hash(title), summary)
                      row == EvidenceRow("event", up.id, "event.summary", summary,
                                         tx, quote, e.confidence)
                  IN  [st EXCEPT
                         !.db.events = up.rows,
                         !.db.evidence = InsertEvidence(st.db.evidence, row),
                         !.events_upserted = @ + 1,
                         !.evidence_inserted = @ + 1]

\* the synthesized summary f"Round={round_type}; amount={amount} {currency}; ..."
FundingSummary(round_type, amount, currency, investors) ==
    <<"Round=">> \o round_type \o <<"amount=">> \o StrOf(amount) \o StrOf(currency)
        \o <<"investors=">> \o investors

\* one iteration of the funding loop: the round is stored as an event of type
\* funding titled "<ROUND_TYPE> round"
PersistFunding(st, tx, fr) ==
    IF st.raised THEN st
    ELSE IF \/ ~fr.dict
            \/ StripRaises(fr.round_type)
            \/ FloatRaises(fr.confidence) \/ StripRaises(fr.evidence_quote)
    THEN [st EXCEPT !.raised = TRUE]
    ELSE LET round_type == OrEmptyStrip(fr.round_type)
             quote == OrEmptyStrip(fr.evidence_quote)
             title == Upper(round_type) \o <<" ", "round">>
             summary == FundingSummary(round_type, fr.amount, fr.currency,
                                       fr.investors)
         IN  IF round_type = <<>> \/ quote = <<>> THEN st
             ELSE LET up == UpsertEvent(st.db.events, tx, <<"funding">>, fr.date,
                                        title, _title_hash(title), summary)
                      row == EvidenceRow("event", up.id, "funding.round",
                                         round_type, tx, quote, fr.confidence)
                  IN  [st EXCEPT
                         !.db.events = up.rows,
                         !.db.evidence = InsertEvidence(st.db.evidence, row),
                         !.funding_upserted = @ + 1,
                         !.evidence_inserted = @ + 1]

RECURSIVE PersistPeopleLoop(_, _, _)
PersistPeopleLoop(st, tx, items) ==
    IF items = <<>> THEN st
    ELSE PersistPeopleLoop(PersistPerson(st, tx, Head(items)), tx, Tail(items))

RECURSIVE PersistEventsLoop(_, _, _)
PersistEventsLoop(st, tx, items) ==
    IF items = <<>> THEN st
    ELSE PersistEventsLoop(PersistEvent(st, tx, Head(items)), tx, Tail(items))

RECURSIVE PersistFundingLoop(_, _, _)
PersistFundingLoop(st, tx, items) ==
    IF items = <<>> THEN st
    ELSE PersistFundingLoop(PersistFunding(st, tx, Head(items)), tx, Tail(items))

\* `with conn:` -- commit when the block ends normally, roll back when it raises
\* (CommitPartial: autocommit, every statement before the failure is kept)
CommitPartial(pre, st) == st.db
CommitOrRollback(pre, st) == IF st.raised THEN pre ELSE st.db

\* persist_accepted_extraction(conn, company_id, source_id, url, accepted) run
\* at database time `now` on committed tables `pre`, in a schema with or
\* without the updated_at trigger:
\* the committed tables afterwards, whether it raised, and its return value
persist_accepted_extraction(pre, trigger, company_id, source_id, url, accepted, now) ==
    LET tx == [company_id |-> company_id, source_id |-> source_id, url |-> url,
               extractor_version |-> accepted.extractor_version, now |-> now,
               updated_at_trigger |-> trigger]
        st0 == [db |-> pre, raised |-> FALSE, people_upserted |-> 0,
                events_upserted |-> 0, funding_upserted |-> 0,
                evidence_inserted |-> 0]
        st1 == PersistPeopleLoop(st0, tx, accepted.people)
        st2 == PersistEventsLoop(st1, tx, accepted.events)
        st3 == PersistFundingLoop(st2, tx, accepted.funding_rounds)
    IN  [db |-> CommitOrRollback(pre, st3),
         raised |-> st3.raised,
         ret |-> [people_upserted |-> st3.people_upserted,
                  events_upserted |-> st3.events_upserted,
                  funding_upserted |-> st3.funding_upserted,
                  evidence_inserted |-> st3.evidence_inserted]]

-----------------------------------------------------------------------------
(* diff.py: run_diff, one transaction.  now() is the transaction's start  *)
(* time, so every change row of one run carries the same detected_at.      *)
(* A statement that fails puts the PostgreSQL transaction in the aborted   *)
(* state: the commit issued by `with conn:` then rolls it back.            *)

Epoch == 0

Max(S) == CHOOSE x \in S : \A y \in S : y <= x

\* SELECT COALESCE(MAX(detected_at), '1970-01-01') FROM changes WHERE company_id=..
Watermark(changes, company_id) ==
    LET ts == {changes[i].detected_at : i \in
                 {j \in 1..Len(changes) : changes[j].company_id = company_id}}
    IN  IF ts = {} THEN Epoch ELSE Max(ts)

\* _best_source_url_for_object: url of the most recent evidence of the object
\* (rows of one transaction share created_at and url), None when there is none
_best_source_url_for_object(evidence, object_type, object_id) ==
    LET rows == {i \in 1..Len(evidence) :
                    /\ evidence[i].object_type = object_type
                    /\ evidence[i].object_id = object_id}
    IN  IF rows = {} THEN None
        ELSE LET newest == Max({evidence[i].created_at : i \in rows})
             IN  Str(evidence[CHOOSE i \in rows :
                                 evidence[i].created_at = newest].url)

NoDetails == [present |-> FALSE, field |-> "", from |-> None, to |-> None]
\* {"field": "role", "from": .., "to": ..} (RoleDetailsNoBaseline: the current
\* role in both places)
RoleDetailsNoBaseline(from, to) ==
    [present |-> TRUE, field |-> "role", from |-> to, to |-> to]
RoleDetails(from, to) == [present |-> TRUE, field |-> "role", from |-> from, to |-> to]

ChangeRow(company_id, change_type, object_type, object_id, source_url, details, now) ==
    [company_id |-> company_id, change_type |-> change_type,
     object_type |-> object_type, object_id |-> object_id,
     source_url |-> source_url, details |-> details, detected_at |-> now]

\* _insert_change: the changes table has no key besides its generated id, so
\* ON CONFLICT DO NOTHING never skips and rowcount is 1
_insert_change(changes, row) == Append(changes, row)

\* SELECT person_id FROM people WHERE company_id=.. AND created_at > watermark
\* (NewPeopleNoFilter: the same query without the watermark condition)
NewPeopleNoFilter(people, company_id, watermark) ==
    {i \in 1..Len(people) : people[i].company_id = company_id}
NewPeople(people, company_id, watermark) ==
    {i \in 1..Len(people) :
        /\ people[i].company_id = company_id
        /\ people[i].created_at > watermark}

\* SELECT person_id, role FROM people WHERE company_id=.. AND updated_at > watermark
RoleCandidates(people, company_id, watermark) ==
    {i \in 1..Len(people) :
        /\ people[i].company_id = company_id
        /\ people[i].updated_at > watermark}

\* SELECT event_id FROM events WHERE company_id=.. AND created_at > watermark
NewEvents(events, company_id, watermark) ==
    {i \in 1..Len(events) :
        /\ events[i].company_id = company_id
        /\ events[i].created_at > watermark}

\* the ids of S in ascending order
RECURSIVE Sorted(_)
Sorted(S) ==
    IF S = {} THEN <<>>
    ELSE LET m == CHOOSE x \in S : \A y \in S : x <= y
         IN  <<m>> \o Sorted(S \ {m})

\* loop of lines 81-84 / 161-164: one change per selected row
RECURSIVE InsertNew(_, _, _, _, _, _, _)
InsertNew(changes, ids, evidence, company_id, change_type, object_type, now) ==
    IF ids = <<>> THEN changes
    ELSE InsertNew(
           _insert_change(changes,
              ChangeRow(company_id, change_type, object_type, Head(ids),
                        _best_source_url_for_object(evidence, object_type, Head(ids)),
                        NoDetails, now)),
           Tail(ids), evidence, company_id, change_type, object_type, now)

\* details.get("to") of the latest updated_role change of the person, None
\* when no such change is recorded
\* (LastToAbsent: no recorded change is ever found)
LastToAbsent(changes, company_id, person_id) == None
LastTo(changes, company_id, person_id) ==
    LET rows == {i \in 1..Len(changes) :
                    /\ changes[i].company_id = company_id
                    /\ changes[i].object_type = "person"
                    /\ changes[i].object_id = person_id
                    /\ changes[i].change_type = "updated_role"}
    IN  IF rows = {} THEN None
        ELSE LET newest == Max({changes[i].detected_at : i \in rows})
                 r == changes[CHOOSE i \in rows : changes[i].detected_at = newest]
             IN  IF r.details.present THEN r.details.to ELSE None

\* loop of lines 104-136 over the role candidates
RECURSIVE RoleLoop(_, _, _, _, _)
RoleLoop(changes, ids, tables, company_id, now) ==
    IF ids = <<>> THEN changes
    ELSE LET person_id == Head(ids)
             role == Str(tables.people[person_id].role)
             last_to == LastTo(changes, company_id, person_id)
             url == _best_source_url_for_object(tables.evidence, "person", person_id)
             next ==
               IF last_to.t = "none"
               THEN _insert_change(changes,
                        ChangeRow(company_id, "updated_role", "person", person_id,
                                  url, RoleDetails(None, role), now))
               ELSE IF role.s # last_to.s
               THEN _insert_change(changes,
                        ChangeRow(company_id, "updated_role", "person", person_id,
                                  url, RoleDetails(last_to, role), now))
               ELSE changes
         IN  RoleLoop(next, Tail(ids), tables, company_id, now)

\* detect_people_changes(cur, company_id): the change log of the transaction
\* afterwards (its return value is the number of rows it appended)
detect_people_changes(changes, tables, company_id, now) ==
    LET watermark == Watermark(changes, company_id)
        c1 == InsertNew(changes, Sorted(NewPeople(tables.people, company_id, watermark)),
                        tables.evidence, company_id, "new_person", "person", now)
    IN  RoleLoop(c1, Sorted(RoleCandidates(tables.people, company_id, watermark)),
                 tables, company_id, now)

\* detect_event_changes(cur, company_id): reads the watermark again, from the
\* change log as the transaction sees it
detect_event_changes(changes, tables, company_id, now) ==
    LET watermark == Watermark(changes, company_id)
    IN  InsertNew(changes, Sorted(NewEvents(tables.events, company_id, watermark)),
                  tables.evidence, company_id, "new_event", "event", now)

\* detect_funding_changes(cur, company_id): no code of the repository inserts
\* into funding_rounds, so the table is empty when it exists; when it does
\* not, the SELECT fails, the except clause swallows the error and the
\* transaction is left aborted
detect_funding_changes(w, has_funding_rounds) ==
    IF has_funding_rounds THEN w ELSE [w EXCEPT !.aborted = TRUE]

\* run_diff(company_id) at database time `now` on committed tables `pre`
run_diff(pre, company_id, has_funding_rounds, now) ==
    LET c0 == pre.changes
        c1 == detect_people_changes(c0, pre, company_id, now)
        c2 == detect_event_changes(c1, pre, company_id, now)
        w == detect_funding_changes([changes |-> c2, aborted |-> FALSE],
                                    has_funding_rounds)
        p == Len(c1) - Len(c0)
        e == Len(c2) - Len(c1)
    IN  [db |-> IF w.aborted THEN pre ELSE [pre EXCEPT !.changes = w.changes],
         raised |-> FALSE,
         emitted |-> SubSeq(c2, Len(c0) + 1, Len(c2)),
         wm0 |-> Watermark(c0, company_id),
         ret |-> [people |-> p, events |-> e, funding_rounds |-> 0,
                  total |-> p + e + 0]]

-----------------------------------------------------------------------------
(* sources table: discover.py insert_sources, web_search.py insert_source, *)
(* fetch.py fetch_and_store, fetch_pending.py fetch_pending                *)

\* rows of (company_id, url)
SourceAt(srcs, company_id, url) ==
    {i \in 1..Len(srcs) : srcs[i].company_id = company_id /\ srcs[i].url = url}

\* INSERT INTO sources(..., NULL, NULL, NULL) ON CONFLICT(company_id, url) DO NOTHING
insert_source(srcs, company_id, url, source_type) ==
    IF SourceAt(srcs, company_id, url) # {} THEN srcs
    ELSE Append(srcs, [company_id |-> company_id, url |-> url,
                       source_type |-> source_type, fetched_at |-> None,
                       content_hash |-> None, clean_text |-> None])

\* insert_sources(conn, company_id, rows), rows a list of (url, source_type)
RECURSIVE insert_sources(_, _, _)
insert_sources(srcs, company_id, rows) ==
    IF rows = <<>> THEN srcs
    ELSE insert_sources(
            IF Head(rows)[1] = "" THEN srcs
            ELSE insert_source(srcs, company_id, Head(rows)[1], Head(rows)[2]),
            company_id, Tail(rows))

\* fetch_and_store(company_id, url, source_type) when the fetch yields `page`:
\* None (blocked, failed, too short) or the clean text, whose hash is itself
\* (fetch_and_store_always: the upsert runs whatever hash is stored)
fetch_and_store_always(srcs, company_id, url, source_type, page, now) ==
    LET hit == SourceAt(srcs, company_id, url)
        row == [company_id |-> company_id, url |-> url,
                source_type |-> source_type, fetched_at |-> Num(<<now>>),
                content_hash |-> page, clean_text |-> page]
    IN  IF page.t = "none" THEN srcs
        ELSE IF hit = {} THEN Append(srcs, row)
        ELSE [srcs EXCEPT ![CHOOSE j \in hit : TRUE] = row]
fetch_and_store(srcs, company_id, url, source_type, page, now) ==
    LET hit == SourceAt(srcs, company_id, url)
        row == [company_id |-> company_id, url |-> url,
                source_type |-> source_type, fetched_at |-> Num(<<now>>),
                content_hash |-> page, clean_text |-> page]
    IN  IF page.t = "none" THEN srcs
        ELSE IF hit = {} THEN Append(srcs, row)
        ELSE LET i == CHOOSE j \in hit : TRUE
             IN  IF srcs[i].content_hash = page THEN srcs
                 ELSE [srcs EXCEPT ![i] = row]

\* the rows fetch_pending selects: not yet fetched, ORDER BY source_type, url
Pending(srcs, company_id) ==
    {i \in 1..Len(srcs) :
        /\ srcs[i].company_id = company_id
        /\ (srcs[i].clean_text.t = "none" \/ srcs[i].content_hash.t = "none")}

\* ORDER BY source_type, url on the labels used here
TypeRank(t) == CASE t = "about" -> 1 [] t = "web_search" -> 2 [] OTHER -> 3
UrlRank(u) == CASE u = "u1" -> 1 [] u = "u2" -> 2 [] OTHER -> 3
Before(a, b) ==
    \/ TypeRank(a.source_type) < TypeRank(b.source_type)
    \/ /\ TypeRank(a.source_type) = TypeRank(b.source_type)
       /\ UrlRank(a.url) < UrlRank(b.url)

\* the first `limit` pending rows in query order
RECURSIVE PendingRows(_, _, _)
PendingRows(srcs, S, limit) ==
    IF S = {} \/ limit = 0 THEN <<>>
    ELSE LET i == CHOOSE j \in S : \A k \in S \ {j} : Before(srcs[j], srcs[k])
         IN  <<srcs[i]>> \o PendingRows(srcs, S \ {i}, limit - 1)

\* loop of fetch_pending over the selected rows; pages[url] is what the fetch
\* of url yields
RECURSIVE FetchLoop(_, _, _, _)
FetchLoop(srcs, rows, pages, now) ==
    IF rows = <<>> THEN srcs
    ELSE FetchLoop(fetch_and_store(srcs, Head(rows).company_id, Head(rows).url,
                                   Head(rows).source_type, pages[Head(rows).url], now),
                   Tail(rows), pages, now)

fetch_pending(srcs, company_id, limit, pages, now) ==
    FetchLoop(srcs, PendingRows(srcs, Pending(srcs, company_id), limit), pages, now)

-----------------------------------------------------------------------------
(* Inputs *)

Companies == {"c1", "c2"}
Urls == {"u1", "u2"}
Pages == {None, Str(<<"page">>)}

sAl == <<"A", "l">>
sBo == <<"B", "o">>
Conf == Num(<<"0.9">>)
Q == Str(<<"q">>)
D1 == Str(<<"2024-01-01">>)
Version == <<"v0.1.0">>

Payload(people, events, funding) ==
    [extractor_version |-> Version, people |-> people, events |-> events,
     funding_rounds |-> funding]

pAlCeo == Person(Str(sAl), Str(<<"ceo">>), None, Conf, Q)
pAlCto == Person(Str(<<"a", "l", " ">>), Str(<<"cto">>), Str(<<"li">>), Conf, Q)
pBo == Person(Str(sBo), Str(<<"cfo">>), None, Conf, Q)
pAlNoRole == Person(Str(sAl), None, None, Conf, Q)
pNoName == Person(Str(<<" ">>), Str(<<"ceo">>), None, Conf, Q)
pBadConf == Person(Str(sBo), Str(<<"cfo">>), None, Str(<<"high">>), Q)

eDated == Event(Str(<<"other">>), D1, Str(<<"T">>), Str(<<"s1">>), Conf, Q)
eDated2 == Event(Str(<<"other">>), D1, Str(<<"t", " ">>), Str(<<"s2">>), Conf, Q)
eUndated == Event(Str(<<"other">>), None, Str(<<"T">>), Str(<<"s1">>), Conf, Q)
eNoTitle == Event(Str(<<"other">>), D1, None, Str(<<"s1">>), Conf, Q)
eBadType == Event(Str(<<"bogus">>), D1, Str(<<"T">>), Str(<<"s1">>), Conf, Q)

fDated == Funding(Str(<<"seed">>), Num(<<"5">>), Str(<<"USD">>), D1, <<"acme">>, Conf, Q)
fDated2 == Funding(Str(<<"seed">>), None, None, D1, <<>>, Conf, Q)
fUndated == Funding(Str(<<"seed">>), None, None, None, <<>>, Conf, Q)
fNoQuote == Funding(Str(<<"grant">>), None, None, D1, <<>>, Conf, Str(<<" ">>))

\* accepted payloads handed to persist in Spec
PipelinePayloads ==
    {Payload(<<pAlCeo>>, <<>>, <<>>),
     Payload(<<pAlCto>>, <<>>, <<>>),
     Payload(<<>>, <<eDated>>, <<>>),
     Payload(<<pAlCeo, pBo>>, <<eUndated>>, <<fDated>>)}

\* accepted payloads handed to persist in SpecPersist
PersistPayloads ==
    {Payload(<<p>>, <<>>, <<>>) :
        p \in {pAlCeo, pAlCto, pBo, pAlNoRole, pNoName, pBadConf}}
    \cup {Payload(<<>>, <<e>>, <<>>) :
        e \in {eDated, eDated2, eUndated, eNoTitle, eBadType}}
    \cup {Payload(<<>>, <<>>, <<f>>) : f \in {fDated, fDated2, fUndated, fNoQuote}}
    \cup {Payload(<<pAlCeo, pAlCto>>, <<>>, <<>>),
          Payload(<<pNoName, pBo>>, <<eNoTitle, eDated>>, <<fNoQuote, fDated>>),
          Payload(<<pAlCeo>>, <<eDated, eBadType>>, <<>>),
          Payload(<<pAlCeo, pBadConf>>, <<>>, <<>>),
          Payload(<<pAlCeo>>, <<eUndated>>, <<fUndated>>)}

-----------------------------------------------------------------------------
(* State machine *)

NoOp == [op |-> "none"]
NoInput == [none |-> TRUE]
NoResult == [none |-> TRUE]

OpRec(op, company_id, arg, r, pre) ==
    [op |-> op, company_id |-> company_id, arg |-> arg, raised |-> r.raised,
     ret |-> r.ret, pre |-> pre, emitted |-> r.emitted, wm0 |-> r.wm0]

InitIdle ==
    /\ vIn = NoInput
    /\ vOut = NoResult
    /\ xrun = <<>>

NoBatch == [stage |-> "idle"]
NoTxs == <<>>

InitDb ==
    /\ batch = NoBatch
    /\ txs = NoTxs
    /\ db = EmptyDb
    /\ sources = <<>>
    /\ clock = 0
    /\ last = NoOp
    /\ prev = NoOp

\* persist_accepted_extraction called with an accepted payload
Persist(company_id, source_id, url, accepted) ==
    LET r == persist_accepted_extraction(db, schema.updated_at_trigger, company_id,
                                         source_id, url, accepted, clock + 1)
    IN  /\ db' = r.db
        /\ clock' = clock + 1
        /\ last' = OpRec("persist", company_id,
                         [source_id |-> source_id, url |-> url, accepted |-> accepted],
                         [r EXCEPT !.ret = r.ret] @@ [emitted |-> <<>>, wm0 |-> Epoch],
                         db)
        /\ prev' = last
        /\ UNCHANGED <<txs, batch, vIn, vOut, sources, schema, xrun>>

\* run_diff called for a company
RunDiff(company_id) ==
    LET r == run_diff(db, company_id, schema.funding_rounds, clock + 1)
    IN  /\ db' = r.db
        /\ clock' = clock + 1
        /\ last' = OpRec("run_diff", company_id, NoInput, r, db)
        /\ prev' = last
        /\ UNCHANGED <<txs, batch, vIn, vOut, sources, schema, xrun>>

SourceOp(op, company_id, srcs) ==
    /\ sources' = srcs
    /\ clock' = clock + 1
    /\ last' = [op |-> op, company_id |-> company_id, pre |-> db]
    /\ prev' = last
    /\ UNCHANGED <<txs, batch, vIn, vOut, db, schema, xrun>>

\* discover_sources: the merged candidate urls are inserted as pending rows
Discover(company_id, rows) ==
    SourceOp("discover", company_id, insert_sources(sources, company_id, rows))

\* web_search_company: every result url that passes the filters and is not
\* yet a source is inserted as a pending web_search row
WebSearch(company_id, url) ==
    SourceOp("web_search", company_id,
             IF SourceAt(sources, company_id, url) # {} THEN sources
             ELSE insert_source(sources, company_id, url, "web_search"))

\* fetch_and_store of one url
Fetch(company_id, url, page) ==
    SourceOp("fetch", company_id,
             fetch_and_store(sources, company_id, url, "website", page, clock + 1))

\* fetch_pending of one company
FetchPending(company_id, pages) ==
    SourceOp("fetch_pending", company_id,
             fetch_pending(sources, company_id, FetchLimit, pages, clock + 1))

Init ==
    /\ InitIdle
    /\ InitDb
    /\ schema \in [funding_rounds : BOOLEAN, updated_at_trigger : BOOLEAN]

Next ==
    /\ clock < MaxOps
    /\ \/ \E c \in Companies, a \in PipelinePayloads : Persist(c, "s1", "u1", a)
       \/ \E c \in Companies : RunDiff(c)

Spec == Init /\ [][Next]_vars

\* sightings of people with their roles, and the diffs between them
RolePayloads ==
    {Payload(<<pAlCeo>>, <<>>, <<>>),
     Payload(<<pAlCto>>, <<>>, <<>>),
     Payload(<<pAlNoRole>>, <<>>, <<>>),
     Payload(<<pBo>>, <<>>, <<>>)}

NextRoles ==
    /\ clock < MaxRoleOps
    /\ \/ \E a \in RolePayloads : Persist("c1", "s1", "u1", a)
       \/ \E c \in Companies : RunDiff(c)

SpecRoles == Init /\ [][NextRoles]_vars

\* every operation that writes to the database
NextPipeline ==
    /\ clock < MaxPipelineOps
    /\ \/ \E c \in Companies, a \in PipelinePayloads : Persist(c, "s1", "u1", a)
       \/ \E c \in Companies : RunDiff(c)
       \/ Discover("c1", <<<<"u1", "about">>, <<"", "website">>, <<"u2", "website">>>>)
       \/ WebSearch("c1", "u1")
       \/ \E page \in Pages : Fetch("c1", "u2", page)
       \/ \E pages \in [Urls -> Pages] : FetchPending("c1", pages)

SpecPipeline == Init /\ [][NextPipeline]_vars

\* fetch_pending run again and again for one company with the limit
\* FetchLimit: vIn.pages[url] is what every fetch of url yields, None for a
\* url whose fetch keeps failing or being skipped (fetch_and_store returns
\* without raising, so mark_fetch_error is not called, and the fetched_at it
\* would set is not read by the query of fetch_pending)
LiveUrls == {"u1", "u2", "u3"}

\* a pending row as insert_sources leaves it
PendingRow(company_id, url, source_type) ==
    [company_id |-> company_id, url |-> url, source_type |-> source_type,
     fetched_at |-> None, content_hash |-> None, clean_text |-> None]

\* the sources tables discovery can leave for c1: each url absent or pending
\* under one source type
PendingTables ==
    {SelectSeq([i \in 1..3 |->
                   PendingRow("c1", <<"u1", "u2", "u3">>[i], types[i])],
               LAMBDA r : r.source_type # "") :
        types \in [1..3 -> {"", "about", "website"}]}

\* database time of the next run, counted round a cycle of MaxFetchRuns so
\* that the runs go on for ever; no query of the runs reads a timestamp
NextRunTime(t) == IF t < MaxFetchRuns THEN t + 1 ELSE 1

FetchPendingAgain ==
    /\ sources' = fetch_pending(sources, "c1", FetchLimit, vIn.pages,
                                NextRunTime(clock))
    /\ clock' = NextRunTime(clock)
    /\ last' = [op |-> "fetch_pending", company_id |-> "c1", pre |-> db]
    /\ prev' = last
    /\ UNCHANGED <<txs, batch, vIn, vOut, db, schema, xrun>>

InitFetchLive ==
    /\ vIn \in [pages : [LiveUrls -> Pages]]
    /\ vOut = NoResult
    /\ xrun = <<>>
    /\ batch = NoBatch
    /\ txs = NoTxs
    /\ db = EmptyDb
    /\ sources \in PendingTables
    /\ clock = 0
    /\ last = NoOp
    /\ prev = NoOp
    /\ schema = [funding_rounds |-> FALSE, updated_at_trigger |-> FALSE]

NextFetchLive == FetchPendingAgain

\* fetch_pending is run again and again
SpecFetchLive ==
    InitFetchLive /\ [][NextFetchLive]_vars /\ WF_vars(NextFetchLive)

\* the operations that write the sources table, each leaving in `last` its
\* arguments and the table it started from
SourceCall(op, company_id, arg, srcs) ==
    /\ sources' = srcs
    /\ clock' = clock + 1
    /\ last' = [op |-> op, company_id |-> company_id, arg |-> arg, pre |-> sources]
    /\ prev' = last
    /\ UNCHANGED <<txs, batch, vIn, vOut, db, schema, xrun>>

SourcePages == {None, Str(<<"page">>), Str(<<"page2">>)}

DiscoverRows ==
    {<<<<"u1", "about">>, <<"", "website">>, <<"u2", "website">>>>,
     <<<<"u2", "about">>, <<"u2", "website">>>>}

DiscoverSources(company_id, rows) ==
    SourceCall("discover", company_id, rows,
               insert_sources(sources, company_id, rows))

WebSearchCompany(company_id, url) ==
    SourceCall("web_search", company_id, url,
               IF SourceAt(sources, company_id, url) # {} THEN sources
               ELSE insert_source(sources, company_id, url, "web_search"))

FetchAndStore(company_id, url, page) ==
    SourceCall("fetch", company_id, [url |-> url, page |-> page],
               fetch_and_store(sources, company_id, url, "website", page, clock + 1))

FetchPendingSources(company_id, pages) ==
    SourceCall("fetch_pending", company_id, pages,
               fetch_pending(sources, company_id, FetchLimit, pages, clock + 1))

NextSources ==
    /\ clock < MaxSourceOps
    /\ \/ \E c \in Companies, rows \in DiscoverRows : DiscoverSources(c, rows)
       \/ \E url \in Urls : WebSearchCompany("c1", url)
       \/ \E url \in Urls, page \in SourcePages : FetchAndStore("c1", url, page)
       \/ FetchAndStore("c2", "u1", Str(<<"page">>))
       \/ \E pages \in [Urls -> {None, Str(<<"page">>)}] :
             FetchPendingSources("c1", pages)

SpecSources == Init /\ [][NextSources]_vars

InitPersist ==
    /\ InitIdle
    /\ InitDb
    /\ schema = [funding_rounds |-> FALSE, updated_at_trigger |-> FALSE]

NextPersist ==
    /\ clock < MaxPersists
    /\ \E c \in Companies, a \in PersistPayloads : Persist(c, "s1", "u1", a)

SpecPersist == InitPersist /\ [][NextPersist]_vars

\* sightings of one person under several spellings, roles and links
pAlLink2 == Person(Str(sAl), Str(<<"ceo", " ">>), Str(<<"li2">>), Conf, Q)
pAlEmptyLink == Person(Str(sAl), Str(<<"cto">>), Str(<<>>), Conf, Q)
pAlAccent == Person(Str(<<"A_acute", "l">>), Str(<<"ceo">>), None, Conf, Q)
pAlDot == Person(Str(<<"A", "l", ".">>), Str(<<"ceo">>), None, Conf, Q)

PeoplePayloads ==
    {Payload(<<p>>, <<>>, <<>>) :
        p \in {pAlCeo, pAlCto, pAlNoRole, pAlLink2, pAlEmptyLink, pBo,
               pAlAccent, pAlDot}}
    \cup {Payload(<<pAlCeo, pAlCto>>, <<>>, <<>>),
          Payload(<<pAlLink2, pBadConf>>, <<>>, <<>>)}

NextPeople ==
    /\ clock < MaxSightings
    /\ \E a \in PeoplePayloads : Persist("c1", "s1", "u1", a)

SpecPeople == InitPersist /\ [][NextPeople]_vars

\* payloads that mix items the guards of upsert.py lines 34, 74 and 112
\* pass over with items they let through
pNoQuote == Person(Str(sAl), Str(<<"ceo">>), None, Conf, None)
pNoNameBadConf == Person(Str(<<>>), Str(<<"cfo">>), None, Str(<<"high">>), Q)
eNoType == Event(Str(<<" ">>), D1, Str(<<"T">>), Str(<<"s1">>), Conf, Q)
eNoQuote == Event(Str(<<"other">>), D1, Str(<<"T">>), Str(<<"s1">>), Conf, Str(<<>>))
fNoRound == Funding(None, None, None, D1, <<>>, Conf, Q)

GuardPayloads ==
    {Payload(ps, es, fs) :
        ps \in UNION {SeqN({pAlCeo, pBo, pNoName, pNoQuote, pNoNameBadConf}, k) :
                        k \in 0..MaxGuardPeople},
        es \in UNION {SeqN({eDated, eNoTitle, eNoType, eNoQuote}, k) : k \in 0..1},
        fs \in UNION {SeqN({fDated, fNoQuote, fNoRound}, k) : k \in 0..1}}

NextGuards ==
    /\ clock < 1
    /\ \E a \in GuardPayloads : Persist("c1", "s1", "u1", a)

SpecGuards == InitPersist /\ [][NextGuards]_vars

\* validate_extraction_for_chunk applied to its arguments
ValidateCall ==
    /\ vOut = NoResult
    /\ vOut' = validate_extraction_for_chunk(vIn.extraction, vIn.chunk_text)
    /\ UNCHANGED <<txs, batch, vIn, db, sources, schema, clock, last, prev, xrun>>

tMain == <<"a", " ", "li", " ", "$", "5", "M">>
Texts == {tMain, <<"A">>, <<>>}

vQuote(q) == Person(Str(sAl), Str(<<"ceo">>), None, Conf, q)
vLinked(q, li) == Person(Str(sAl), Str(<<"ceo">>), li, Conf, q)
vEvent(type, q) == Event(type, None, Str(<<"T">>), Str(<<"s1">>), Conf, q)
vFunding(rt, amount, q) == Funding(rt, amount, None, None, <<>>, Conf, q)

ValidatePeople ==
    {vQuote(Str(<<"a">>)), vQuote(Str(<<" ", "a">>)), vQuote(Str(<<"A">>)),
     vQuote(Num(<<"7">>)), vLinked(Str(<<"a", " ", "li">>), Str(<<"li">>)),
     vLinked(Str(<<"a">>), Str(<<"li">>)), vLinked(Str(<<"a">>), Str(<<>>)),
     NotADictPerson}

ValidateEvents ==
    {vEvent(Str(<<"funding">>), Str(<<"a">>)),
     vEvent(Str(<<" ", "other">>), Str(<<"$", "5", "M", " ">>)),
     vEvent(Str(<<"FUNDING">>), Str(<<"a">>)),
     vEvent(None, Str(<<"a">>)),
     vEvent(Str(<<"other">>), Str(<<"5", "$">>)),
     NotADictEvent}

ValidateFunding ==
    {vFunding(Str(<<"seed">>), None, Str(<<"$", "5", "M">>)),
     vFunding(Str(<<"seed">>), Num(<<"5">>), Str(<<"$", "5", "M">>)),
     vFunding(Str(<<"seed">>), Num(<<"5000000">>), Str(<<"$", "5", "M">>)),
     vFunding(Str(<<"bogus">>), None, Str(<<"$", "5", "M">>)),
     vFunding(Str(<<"seed">>), None, Str(<<"M", "5">>)),
     NotADictFunding}

\* the extraction payloads of at most n candidates
Extractions(n) ==
    UNION {
      {[extractor_version |-> Version, people |-> p, events |-> e,
        funding_rounds |-> f] :
          p \in SeqN(ValidatePeople, i), e \in SeqN(ValidateEvents, j),
          f \in SeqN(ValidateFunding, k)} :
      <<i, j, k>> \in {t \in (0..n) \X (0..n) \X (0..n) : t[1] + t[2] + t[3] <= n}}

InitValidate ==
    /\ vIn \in [extraction : Extractions(MaxItems), chunk_text : Texts]
    /\ vOut = NoResult
    /\ xrun = <<>>
    /\ InitDb
    /\ schema = [funding_rounds |-> FALSE, updated_at_trigger |-> FALSE]

NextValidate == ValidateCall

SpecValidate == InitValidate /\ [][NextValidate]_vars

-----------------------------------------------------------------------------
(* run_extract_all.py: main(company_id).  The clean_text of a source is    *)
(* kept as the sequence of chunk texts that chunk_text(clean_text, 2400,   *)
(* max_chunks_per_source) cuts it into.  What the LLM returns for a chunk  *)
(* and what triage_chunk labels it are inputs of the run.                  *)

INCLUDE_TYPES == {"about", "ai_discovered", "news", "web_search", "website"}

\* load_sources: the company's fetched sources of the included types
RECURSIVE load_sources(_, _)
load_sources(srcs, company_id) ==
    IF srcs = <<>> THEN <<>>
    ELSE LET r == Head(srcs)
             rest == load_sources(Tail(srcs), company_id)
         IN  IF /\ r.company_id = company_id
                /\ r.clean_text.t = "str"
                /\ r.source_type \in INCLUDE_TYPES
             THEN <<r>> \o rest
             ELSE rest

\* the chunks of a source as (source, text) pairs, in order
ChunksOf(src) ==
    [i \in 1..Len(src.clean_text.s) |-> [src |-> src, text |-> src.clean_text.s[i]]]

RECURSIVE AllChunks(_)
AllChunks(srcs) ==
    IF srcs = <<>> THEN <<>> ELSE ChunksOf(Head(srcs)) \o AllChunks(Tail(srcs))

\* label = (t.get("labels") or "irrelevant"); if label == "irrelevant": continue
\* -- labels is a list, and a list equals the str only when the `or` replaced
\* an empty list by it
TriageSkips(labels) == labels = <<>>

Raises == [raises |-> TRUE]

\* lines 113-132: what the loop keeps of the outcome `r` of the persist call
AfterPersist(st, rec, r) ==
    IF r.raised
    THEN [st EXCEPT !.now = @ + 1,
                    !.rejected_steps = @ + 1,
                    !.trace = Append(@, [rec EXCEPT !.status = "upsert_fail",
                                                    !.post = r.db])]
    ELSE [st EXCEPT !.db = r.db,
                    !.now = @ + 1,
                    !.people = @ + r.ret.people_upserted,
                    !.events = @ + r.ret.events_upserted,
                    !.funding = @ + r.ret.funding_upserted,
                    !.evidence = @ + r.ret.evidence_inserted,
                    !.trace = Append(@, [rec EXCEPT !.status = "persisted",
                                                    !.post = r.db])]

\* lines 104-121: skip the chunk when nothing was accepted, else persist
AfterValidate(st, company_id, rec, v) ==
    IF /\ v.stats.people_ok = 0 /\ v.stats.events_ok = 0
       /\ v.stats.funding_ok = 0
    THEN [st EXCEPT !.trace = Append(@, [rec EXCEPT !.status = "nothing_accepted"])]
    ELSE AfterPersist(st, rec,
            persist_accepted_extraction(st.db, FALSE, company_id, rec.source_id,
                                        rec.url, v.accepted, st.now + 1))

\* one iteration of the chunk loop (lines 79-132); `step` is the chunk with
\* the triage labels and the extract_chunk outcome it gets
ExtractStep(st, company_id, step) ==
    LET rec == [source_id |-> step.chunk.src.source_id,
                url |-> step.chunk.src.url, text |-> step.chunk.text,
                labels |-> step.labels, extraction |-> step.llm,
                pre |-> st.db, post |-> st.db,
                status |-> "triage_skip"]
    IN  IF TriageSkips(step.labels)
        THEN [st EXCEPT !.trace = Append(@, rec)]
        ELSE IF step.llm = Raises
        THEN [st EXCEPT !.rejected_steps = @ + 1,
                        !.trace = Append(@, [rec EXCEPT !.status = "extract_fail"])]
        ELSE AfterValidate(st, company_id, rec,
                validate_extraction_for_chunk(step.llm, step.chunk.text))

\* the loops over sources and chunks (ExtractLoopStopsOnFailure: a loop that
\* ends at the first chunk whose extraction or persist raised)
RECURSIVE ExtractLoopStopsOnFailure(_, _, _)
ExtractLoopStopsOnFailure(st, company_id, steps) ==
    IF steps = <<>> THEN st
    ELSE LET nxt == ExtractStep(st, company_id, Head(steps))
         IN  IF nxt.rejected_steps > st.rejected_steps THEN nxt
             ELSE ExtractLoopStopsOnFailure(nxt, company_id, Tail(steps))
RECURSIVE ExtractLoop(_, _, _)
ExtractLoop(st, company_id, steps) ==
    IF steps = <<>> THEN st
    ELSE ExtractLoop(ExtractStep(st, company_id, Head(steps)), company_id, Tail(steps))

\* main(company_id): the state after the loops over sources and chunks
run_extract_all(tables, srcs, company_id, labels, llm, now) ==
    LET chunks == AllChunks(load_sources(srcs, company_id))
        steps == [i \in 1..Len(chunks) |->
                    [chunk |-> chunks[i], labels |-> labels[i], llm |-> llm[i]]]
    IN  ExtractLoop([db |-> tables, now |-> now, rejected_steps |-> 0,
                     people |-> 0, events |-> 0, funding |-> 0, evidence |-> 0,
                     trace |-> <<>>],
                    company_id, steps)

\* the state a run of run_extract_all with outcome `r` leaves
ExtractDone(company_id, r) ==
    /\ db' = r.db
    /\ clock' = r.now + 1
    /\ xrun' = r.trace
    /\ last' = [op |-> "run_extract_all", company_id |-> company_id,
                raised |-> FALSE, pre |-> db,
                ret |-> [people |-> r.people, events |-> r.events,
                         funding |-> r.funding, evidence |-> r.evidence,
                         rejected_steps |-> r.rejected_steps]]
    /\ prev' = last
    /\ UNCHANGED <<txs, batch, vIn, vOut, sources, schema>>

\* run_extract_all of one company
RunExtractAll(company_id, labels, llm) ==
    ExtractDone(company_id,
                run_extract_all(db, sources, company_id, labels, llm, clock))

\* main(company_id) whose process is killed when k chunks are done (labels
\* and llm are what those k chunks got): every
\* chunk's persist is a transaction of its own, so what the first k chunks
\* committed stays and nothing is returned
run_extract_all_killed(tables, srcs, company_id, labels, llm, now, k) ==
    LET chunks == AllChunks(load_sources(srcs, company_id))
        steps == [i \in 1..k |->
                    [chunk |-> chunks[i], labels |-> labels[i], llm |-> llm[i]]]
    IN  ExtractLoop([db |-> tables, now |-> now, rejected_steps |-> 0,
                     people |-> 0, events |-> 0, funding |-> 0, evidence |-> 0,
                     trace |-> <<>>],
                    company_id, steps)

ExtractKilled(company_id, labels, llm, r) ==
    /\ db' = r.db
    /\ clock' = r.now + 1
    /\ xrun' = r.trace
    /\ last' = [op |-> "run_extract_all_killed", company_id |-> company_id,
                raised |-> TRUE, pre |-> db,
                arg |-> [labels |-> labels, llm |-> llm]]
    /\ prev' = last
    /\ UNCHANGED <<txs, batch, vIn, vOut, sources, schema>>

\* run_extract_all of one company, interrupted after k chunks
RunExtractAllKilled(company_id, labels, llm, k) ==
    ExtractKilled(company_id, labels, llm,
                  run_extract_all_killed(db, sources, company_id, labels, llm,
                                         clock, k))

tUpper == <<"A">>

SourceRow(company_id, source_id, url, source_type, clean_text) ==
    [company_id |-> company_id, source_id |-> source_id, url |-> url,
     source_type |-> source_type, fetched_at |-> Num(<<0>>),
     content_hash |-> clean_text, clean_text |-> clean_text]

\* the sources tables a run starts from
ExtractSources ==
    {<<SourceRow("c1", "s1", "u1", "about", Str(<<tMain, tUpper>>))>>,
     <<SourceRow("c1", "s1", "u1", "website", Str(<<tMain>>)),
       SourceRow("c1", "s2", "u2", "web_search", None),
       SourceRow("c1", "s3", "u3", "pdf", Str(<<tMain>>)),
       SourceRow("c2", "s4", "u1", "news", Str(<<tMain>>)),
       SourceRow("c1", "s5", "u5", "news", Str(<<tUpper>>))>>}

xBo(conf, q) == Person(Str(sBo), Str(<<"cfo">>), None, conf, q)

\* what extract_chunk yields for a chunk
ExtractOutcomes ==
    {Raises,
     Payload(<<vQuote(Str(<<"a">>)), xBo(Conf, Str(<<"A">>))>>, <<>>, <<>>),
     Payload(<<vQuote(Str(<<" ", "a">>))>>,
             <<vEvent(Str(<<"funding">>), Str(<<"a">>)),
               vEvent(Str(<<"FUNDING">>), Str(<<"a">>))>>, <<>>),
     Payload(<<>>, <<>>,
             <<vFunding(Str(<<"seed">>), Num(<<"5000000">>), Str(<<"$", "5", "M">>))>>),
     Payload(<<xBo(Str(<<"high">>), Str(<<"a">>)), vQuote(Str(<<"a">>))>>,
             <<>>, <<>>),
     Payload(<<xBo(Conf, Str(<<"A">>))>>, <<>>,
             <<vFunding(Str(<<"seed">>), Num(<<"5">>), Str(<<"$", "5", "M">>))>>)}

\* what triage_chunk labels a chunk: it returns at least one label
TriageLabels == {<<"irrelevant">>, <<"founders_team", "funding">>}

InitExtract ==
    /\ InitIdle
    /\ batch = NoBatch
    /\ txs = NoTxs
    /\ db = EmptyDb
    /\ sources \in ExtractSources
    /\ clock = 0
    /\ last = NoOp
    /\ prev = NoOp
    /\ schema = [funding_rounds |-> FALSE, updated_at_trigger |-> FALSE]

\* a run starts while the clock is below MaxRuns, or resumes a killed run
NextExtract ==
    \E c \in Companies :
        LET n == Len(AllChunks(load_sources(sources, c)))
        IN  \/ /\ clock < MaxRuns \/ last.op = "run_extract_all_killed"
               /\ \E labels \in SeqN(TriageLabels, n), llm \in SeqN(ExtractOutcomes, n) :
                     RunExtractAll(c, labels, llm)
            \/ /\ clock < MaxRuns
               /\ \E k \in 0..(n - 1) :
                     \E labels \in SeqN(TriageLabels, k), llm \in SeqN(ExtractOutcomes, k) :
                        RunExtractAllKilled(c, labels, llm, k)

SpecExtract == InitExtract /\ [][NextExtract]_vars

-----------------------------------------------------------------------------
(* run_20.py: the batch driver.  Every step is a subprocess; `ok` is       *)
(* whether it exits with status 0.                                         *)

\* the steps main() runs through run_step for one company, in order
STAGES == <<"discover", "web_search", "fetch_pending", "extract_all", "diff">>

\* run_step(label, cmd, fatal): its return value, or that it raises
run_step(ok, fatal) ==
    IF ok THEN [raises |-> FALSE, ret |-> TRUE]
    ELSE IF fatal THEN [raises |-> TRUE, ret |-> FALSE]
    ELSE [raises |-> FALSE, ret |-> FALSE]

StageAfter(stage) ==
    LET k == CHOOSE j \in 1..Len(STAGES) : STAGES[j] = stage
    IN  IF k < Len(STAGES) THEN STAGES[k + 1] ELSE "next_company"

Logged(stage, ok) ==
    Append(batch.log, [company |-> batch.i, stage |-> stage, ok |-> ok])

\* line 47: subprocess.check_output of pipeline.ensure_company, outside
\* run_step; a non-zero exit status raises CalledProcessError out of main()
BatchEnsure(ok) ==
    /\ batch.stage = "ensure"
    /\ batch' = [batch EXCEPT !.log = Logged("ensure", ok),
                              !.stage = IF ok THEN STAGES[1] ELSE "aborted"]
    /\ UNCHANGED <<txs, vIn, vOut, db, sources, schema, clock, last, prev, xrun>>

\* lines 51-63: one run_step call, then the next step, the next company or
\* the end of the loop
BatchRunStep(ok) ==
    /\ batch.stage \in Range(STAGES)
    /\ LET r == run_step(ok, FALSE)
           nxt == StageAfter(batch.stage)
       IN  batch' =
             IF r.raises
             THEN [batch EXCEPT !.log = Logged(batch.stage, ok), !.stage = "aborted"]
             ELSE IF nxt # "next_company"
             THEN [batch EXCEPT !.log = Logged(batch.stage, ok), !.stage = nxt]
             ELSE IF batch.i < batch.n
             THEN [batch EXCEPT !.log = Logged(batch.stage, ok),
                                !.i = @ + 1, !.stage = "ensure"]
             ELSE [batch EXCEPT !.log = Logged(batch.stage, ok), !.stage = "done"]
    /\ UNCHANGED <<txs, vIn, vOut, db, sources, schema, clock, last, prev, xrun>>

InitBatch ==
    /\ InitIdle
    /\ txs = NoTxs
    /\ db = EmptyDb
    /\ sources = <<>>
    /\ clock = 0
    /\ last = NoOp
    /\ prev = NoOp
    /\ schema = [funding_rounds |-> FALSE, updated_at_trigger |-> FALSE]
    /\ \E n \in 1..MaxSeed : batch = [n |-> n, i |-> 1, stage |-> "ensure", log |-> <<>>]

NextBatch ==
    \E ok \in BOOLEAN : BatchEnsure(ok) \/ BatchRunStep(ok)

SpecBatch == InitBatch /\ [][NextBatch]_vars

-----------------------------------------------------------------------------
(* Two connections run persist_accepted_extraction at the same time.  Each *)
(* call is one transaction at PostgreSQL's default READ COMMITTED level    *)
(* (no connection in the repository sets another).  An INSERT ... ON       *)
(* CONFLICT DO UPDATE locks the row it inserts or updates until its        *)
(* transaction ends; the same statement of another transaction on the same *)
(* unique key waits for that end and then updates the committed row.  Two  *)
(* transactions that wait for each other are a deadlock: the server fails  *)
(* the statement of one of them (DeadlockDetected), persist raises and     *)
(* `with conn:` rolls that transaction back.  A row with a NULL date       *)
(* conflicts with no row, so its insert never waits.                       *)

Txs == {1, 2}

\* the statements of one call, in the order of the three loops
Items(accepted) ==
    [i \in 1..Len(accepted.people) |-> [kind |-> "person", item |-> accepted.people[i]]]
    \o [i \in 1..Len(accepted.events) |-> [kind |-> "event", item |-> accepted.events[i]]]
    \o [i \in 1..Len(accepted.funding_rounds) |->
            [kind |-> "funding", item |-> accepted.funding_rounds[i]]]

TxContext(tx) ==
    [company_id |-> tx.company_id, source_id |-> tx.source_id, url |-> tx.url,
     extractor_version |-> tx.accepted.extractor_version, now |-> tx.start,
     updated_at_trigger |-> FALSE]

\* one loop iteration on its own, on empty tables: whether it raises, is
\* skipped by the guards, or upserts, and the row it writes
Statement(tx, it) ==
    LET st0 == [db |-> EmptyDb, raised |-> FALSE, people_upserted |-> 0,
                events_upserted |-> 0, funding_upserted |-> 0,
                evidence_inserted |-> 0]
    IN  CASE it.kind = "person" -> PersistPerson(st0, TxContext(tx), it.item)
          [] it.kind = "event" -> PersistEvent(st0, TxContext(tx), it.item)
          [] OTHER -> PersistFunding(st0, TxContext(tx), it.item)

Outcome(st) ==
    IF st.raised THEN "raise"
    ELSE IF st.evidence_inserted = 0 THEN "skip" ELSE "upsert"

NoKey == <<>>

\* the unique-index entry the upsert of a statement locks
LockKey(st) ==
    IF st.db.people # <<>>
    THEN <<"person", st.db.people[1].company_id, st.db.people[1].normalized_name>>
    ELSE IF st.db.events[1].date.t = "none" THEN NoKey
    ELSE <<"event", st.db.events[1].company_id, st.db.events[1].type,
           st.db.events[1].date, st.db.events[1].title_hash>>

\* the statement transaction t runs next
NextStatement(t) == Statement(txs[t], Items(txs[t].accepted)[txs[t].pc])

Running(t) == txs[t].status = "active" /\ txs[t].pc <= Len(Items(txs[t].accepted))

\* t's next statement waits for the end of transaction u
BlockedBy(t, u) ==
    /\ t # u
    /\ Running(t)
    /\ txs[u].status = "active"
    /\ Outcome(NextStatement(t)) = "upsert"
    /\ LockKey(NextStatement(t)) # NoKey
    /\ LockKey(NextStatement(t)) \in txs[u].locks

\* transaction t runs its next loop iteration
TxStep(t) ==
    /\ Running(t)
    /\ \A u \in Txs : ~BlockedBy(t, u)
    /\ txs' = [txs EXCEPT ![t] =
                 CASE Outcome(NextStatement(t)) = "raise" ->
                        [@ EXCEPT !.status = "aborted", !.locks = {},
                                  !.error = "statement"]
                   [] Outcome(NextStatement(t)) = "skip" ->
                        [@ EXCEPT !.pc = @ + 1]
                   [] OTHER ->
                        [@ EXCEPT !.pc = @ + 1,
                                  !.locks = @ \cup ({LockKey(NextStatement(t))}
                                                      \ {NoKey})]]
    /\ UNCHANGED <<batch, vIn, vOut, db, sources, schema, clock, last, prev, xrun>>

\* the loops of t are over and `with conn:` commits: what t wrote becomes the
\* committed state, on top of what was committed meanwhile
TxCommit(t) ==
    /\ txs[t].status = "active"
    /\ txs[t].pc > Len(Items(txs[t].accepted))
    /\ db' = persist_accepted_extraction(db, FALSE, txs[t].company_id,
                                         txs[t].source_id, txs[t].url,
                                         txs[t].accepted, txs[t].start).db
    /\ txs' = [txs EXCEPT ![t].status = "committed", ![t].locks = {}]
    /\ UNCHANGED <<batch, vIn, vOut, sources, schema, clock, last, prev, xrun>>

\* t and another transaction wait for each other; the server picks t as the
\* victim, its statement fails and the transaction is rolled back
TxDeadlock(t) ==
    /\ \E u \in Txs : BlockedBy(t, u) /\ BlockedBy(u, t)
    /\ txs' = [txs EXCEPT ![t].status = "aborted", ![t].locks = {},
                           ![t].error = "deadlock"]
    /\ UNCHANGED <<batch, vIn, vOut, db, sources, schema, clock, last, prev, xrun>>

OpenTx(source_id, url, accepted, start) ==
    [company_id |-> "c1", source_id |-> source_id, url |-> url,
     accepted |-> accepted, start |-> start, pc |-> 1, status |-> "active",
     locks |-> {}, error |-> ""]

\* accepted payloads of the two calls
ConcurrentPayloads ==
    {Payload(<<pAlCeo>>, <<>>, <<>>),
     Payload(<<pAlCto>>, <<>>, <<>>),
     Payload(<<pAlCeo, pBo>>, <<>>, <<>>),
     Payload(<<pBo, pAlCto>>, <<>>, <<>>),
     Payload(<<>>, <<eDated>>, <<>>),
     Payload(<<pNoName>>, <<eDated2>>, <<fDated>>),
     Payload(<<pBo, pBadConf>>, <<>>, <<fDated2>>)}

\* tables committed before the two calls start
SeededDb ==
    persist_accepted_extraction(EmptyDb, FALSE, "c1", "s0", "u0",
                                Payload(<<pAlCeo>>, <<eDated>>, <<>>), 0).db

InitConcurrent ==
    /\ InitIdle
    /\ batch = NoBatch
    /\ db \in {EmptyDb, SeededDb}
    /\ sources = <<>>
    /\ clock = 2
    /\ last = NoOp
    /\ prev = NoOp
    /\ schema = [funding_rounds |-> FALSE, updated_at_trigger |-> FALSE]
    /\ \E a1 \in ConcurrentPayloads, a2 \in ConcurrentPayloads :
          txs = <<OpenTx("s1", "u1", a1, 1), OpenTx("s2", "u2", a2, 2)>>

NextConcurrent ==
    \E t \in Txs : TxStep(t) \/ TxCommit(t) \/ TxDeadlock(t)

SpecConcurrent == InitConcurrent /\ [][NextConcurrent]_vars

-----------------------------------------------------------------------------
(* chunk.py and triage.py work on page text.  Here a text is run-length    *)
(* encoded: a sequence of runs [c |-> character, n |-> repetitions] with   *)
(* n >= 1 and no two adjacent runs of the same character, so that texts of *)
(* hundreds of characters stay small.  Lengths, slices and sub-string      *)
(* tests are those of the text the runs stand for.                         *)

Run(c, n) == [c |-> c, n |-> n]

min(a, b) == IF a < b THEN a ELSE b
max(a, b) == IF a > b THEN a ELSE b

\* len(t), the lengths of the two halves added
RECURSIVE TLen(_)
TLen(t) ==
    IF t = <<>> THEN 0
    ELSE IF Len(t) = 1 THEN t[1].n
    ELSE TLen(SubSeq(t, 1, Len(t) \div 2))
         + TLen(SubSeq(t, Len(t) \div 2 + 1, Len(t)))

\* the number of characters before run i
CharsBefore(t, i) == TLen(SubSeq(t, 1, i - 1))

\* a + b
TCat(a, b) ==
    IF a = <<>> THEN b
    ELSE IF b = <<>> THEN a
    ELSE IF a[Len(a)].c = b[1].c
    THEN SubSeq(a, 1, Len(a) - 1) \o <<Run(b[1].c, a[Len(a)].n + b[1].n)>> \o Tail(b)
    ELSE a \o b

\* the encoding of a sequence of single characters, the two halves encoded
\* and joined
RECURSIVE Rle(_)
Rle(chars) ==
    IF chars = <<>> THEN <<>>
    ELSE IF Len(chars) = 1 THEN <<Run(chars[1], 1)>>
    ELSE TCat(Rle(SubSeq(chars, 1, Len(chars) \div 2)),
              Rle(SubSeq(chars, Len(chars) \div 2 + 1, Len(chars))))

\* the characters str.strip() removes and re's \s matches
WS == {" ", "\n"}

RECURSIVE TLStrip(_)
TLStrip(t) == IF t # <<>> /\ Head(t).c \in WS THEN TLStrip(Tail(t)) ELSE t

RECURSIVE TRStrip(_)
TRStrip(t) ==
    IF t # <<>> /\ t[Len(t)].c \in WS THEN TRStrip(SubSeq(t, 1, Len(t) - 1)) ELSE t

\* t.strip()
TStrip(t) == TRStrip(TLStrip(t))

\* t[:k]: the runs that start before character k, the last one cut
TTake(t, k) ==
    [i \in 1..Cardinality({j \in 1..Len(t) : CharsBefore(t, j) < k}) |->
        Run(t[i].c, min(t[i].n, k - CharsBefore(t, i)))]

\* the number of runs that end at or before character k
RunsWithin(t, k) == Cardinality({j \in 1..Len(t) : CharsBefore(t, j) + t[j].n <= k})

\* the part after character k of the runs from run `first` on
DropFrom(t, k, first) ==
    [i \in 1..(Len(t) - first + 1) |->
        Run(t[i + first - 1].c,
            min(t[i + first - 1].n,
                CharsBefore(t, i + first - 1) + t[i + first - 1].n - k))]

\* t[k:]
TDrop(t, k) == DropFrom(t, k, RunsWithin(t, k) + 1)

\* t[a:b]
TSlice(t, a, b) == TTake(TDrop(t, a), b - a)

\* t.splitlines() from run `start` on: the line up to the next newline,
\* an empty line for every further newline of the run, and the lines after
\* it; a text that ends with a newline has no empty last line
RECURSIVE LinesFrom(_, _)
NextLines(t, start, j) ==
    <<SubSeq(t, start, j - 1)>> \o [i \in 1..(t[j].n - 1) |-> <<>>]
    \o LinesFrom(t, j + 1)

LinesFrom(t, start) ==
    IF start > Len(t) THEN <<>>
    ELSE IF \A i \in start..Len(t) : t[i].c # "\n" THEN <<SubSeq(t, start, Len(t))>>
    ELSE NextLines(t, start,
                   CHOOSE j \in start..Len(t) :
                      t[j].c = "\n" /\ \A i \in start..(j - 1) : t[i].c # "\n")

SplitLines(t) == LinesFrom(t, 1)

\* sep.join(parts)
RECURSIVE Join(_, _)
Join(parts, sep) ==
    IF parts = <<>> THEN <<>>
    ELSE IF Len(parts) = 1 THEN parts[1]
    ELSE TCat(TCat(parts[1], sep), Join(Tail(parts), sep))

-----------------------------------------------------------------------------
(* chunk.py: chunk_text(clean_text, max_chars, max_chunks_per_source)      *)

\* lines 15-26: the paragraphs, blank lines apart, each the stripped lines
\* of the paragraph joined by one space
RECURSIVE Paragraphs(_, _, _)
Paragraphs(lines, buf, paras) ==
    IF lines = <<>>
    THEN (IF buf # <<>> THEN Append(paras, TStrip(Join(buf, <<Run(" ", 1)>>)))
          ELSE paras)
    ELSE IF TStrip(Head(lines)) = <<>>
    THEN (IF buf # <<>>
          THEN Paragraphs(Tail(lines), <<>>,
                          Append(paras, TStrip(Join(buf, <<Run(" ", 1)>>))))
          ELSE Paragraphs(Tail(lines), buf, paras))
    ELSE Paragraphs(Tail(lines), Append(buf, TStrip(Head(lines))), paras)

\* lines 36-44: flush()
flush(st) ==
    IF st.cur = <<>> THEN st
    ELSE [st EXCEPT
            !.chunks = IF TStrip(Join(st.cur, <<Run("\n", 2)>>)) # <<>>
                       THEN Append(@, TStrip(Join(st.cur, <<Run("\n", 2)>>)))
                       ELSE @,
            !.cur = <<>>,
            !.cur_len = 0]

\* lines 56-61: the loop runs once for every start = k * max_chars below
\* len(p) and takes the slice p[start:start + max_chars]
\* (SlicesWithoutRest: only the slices of full size)
SliceStarts(p, max_chars) ==
    {k * max_chars : k \in {j \in 0..(TLen(p) - 1) : j * max_chars < TLen(p)}}

SlicesWithoutRest(p, max_chars) ==
    [i \in 1..(TLen(p) \div max_chars) |->
        TSlice(p, (i - 1) * max_chars, (i - 1) * max_chars + max_chars)]
Slices(p, max_chars) ==
    [i \in 1..Cardinality(SliceStarts(p, max_chars)) |->
        TSlice(p, (i - 1) * max_chars, (i - 1) * max_chars + max_chars)]

\* lines 58-60: part = slice.strip(); if part: chunks.append(part)
NotBlank(part) == TStrip(part) # <<>>

StripEach(parts) == [i \in 1..Len(parts) |-> TStrip(parts[i])]

HardSplit(p, max_chars) == StripEach(SelectSeq(Slices(p, max_chars), NotBlank))

\* line 51: the paragraph does not fit the chunk being packed
\* (OverflowsNever: the test left out)
OverflowsNever(st, p, max_chars) == FALSE
Overflows(st, p, max_chars) ==
    st.cur_len + TLen(p) + 2 > max_chars /\ st.cur # <<>>

\* lines 64-68: the paragraph joins the chunk being packed; the loop ends
\* when enough chunks are flushed
\* (PackInFront: the paragraph is put before the ones already packed)
PackInFront(st, p, max_chunks) ==
    [st EXCEPT !.cur = <<p>> \o @,
               !.cur_len = @ + TLen(p) + 2,
               !.done = Len(st.chunks) >= max_chunks]
Pack(st, p, max_chunks) ==
    [st EXCEPT !.cur = Append(@, p),
               !.cur_len = @ + TLen(p) + 2,
               !.done = Len(st.chunks) >= max_chunks]

\* lines 47-68: one iteration of the loop over the paragraphs
PackStep(st, p, max_chars, max_chunks) ==
    IF p = <<>> THEN st
    ELSE IF TLen(p) > max_chars
    THEN [(IF Overflows(st, p, max_chars) THEN flush(st) ELSE st)
            EXCEPT !.chunks = @ \o HardSplit(p, max_chars)]
    ELSE Pack(IF Overflows(st, p, max_chars) THEN flush(st) ELSE st, p, max_chunks)

RECURSIVE PackLoop(_, _, _, _)
PackLoop(st, paras, max_chars, max_chunks) ==
    IF paras = <<>> \/ st.done THEN st
    ELSE PackLoop(PackStep(st, TStrip(Head(paras)), max_chars, max_chunks),
                  Tail(paras), max_chars, max_chunks)

BODY == Rle(<<"B", "O", "D", "Y">>)

\* lines 79-83: the first line of the chunk when it is short
FirstLine(lines) == IF lines # <<>> THEN TStrip(lines[1]) ELSE <<>>

Heading(c) ==
    IF 0 < TLen(FirstLine(SplitLines(c)))
       /\ TLen(FirstLine(SplitLines(c))) <= 80
    THEN FirstLine(SplitLines(c))
    ELSE BODY

\* lines 77-86: the first max_chunks_per_source chunks, numbered from 1
Output(chunks, max_chunks) ==
    [i \in 1..(IF Len(chunks) < max_chunks THEN Len(chunks) ELSE max_chunks) |->
        [idx |-> i, heading |-> Heading(chunks[i]), text |-> chunks[i]]]

\* lines 28-30: the whole text when no paragraph was found
ParasOrText(paras, text) == IF paras = <<>> THEN <<text>> ELSE paras

\* lines 73-74: the head of the text when no chunk was made
ChunksOrHead(chunks, text, max_chars) ==
    IF chunks = <<>> THEN <<TTake(text, max_chars)>> ELSE chunks

\* lines 14-74: the chunks of a stripped text, before the output is cut
Chunks(text, max_chars, max_chunks) ==
    ChunksOrHead(
        flush(PackLoop([chunks |-> <<>>, cur |-> <<>>, cur_len |-> 0, done |-> FALSE],
                       ParasOrText(Paragraphs(SplitLines(text), <<>>, <<>>),
                                   text),
                       max_chars, max_chunks)).chunks,
        text, max_chars)

\* line 10: (clean_text or "").strip()
Stripped(clean_text) == IF Truthy(clean_text) THEN TStrip(clean_text.s) ELSE <<>>

\* line 11: the text has a meaningful length (LongEnoughUnstripped: measured
\* before the strip)
LongEnoughUnstripped(clean_text) == TLen(clean_text.s) >= 200
LongEnough(clean_text) == TLen(Stripped(clean_text)) >= 200

chunk_text(clean_text, max_chars, max_chunks) ==
    IF ~LongEnough(clean_text) THEN <<>>
    ELSE Output(Chunks(Stripped(clean_text), max_chars, max_chunks), max_chunks)

\* run_extract_all.py line 73 and run_triage.py line 53: the caller passes
\* the stored clean_text and the two limits
ChunkCall ==
    /\ vOut = NoResult
    /\ vOut' = [chunks |-> chunk_text(vIn.clean_text, vIn.max_chars, vIn.max_chunks)]
    /\ UNCHANGED <<txs, batch, vIn, db, sources, schema, clock, last, prev, xrun>>

\* the runs page texts are made of: words of 1 to 250 letters, blanks and
\* line breaks
ChunkRuns ==
    {Run("x", n) : n \in {1, 150, 199, 200, 250}}
    \cup {Run("y", n) : n \in {150}}
    \cup {Run(" ", n) : n \in {1, 100}}
    \cup {Run("\n", n) : n \in {1, 2}}

IsCanonical(t) == \A i \in 1..(Len(t) - 1) : t[i].c # t[i + 1].c

\* the texts of at most n runs
RunTexts(runs, n) ==
    UNION {{t \in SeqN(runs, k) : IsCanonical(t)} : k \in 0..n}

\* 2400 and 3 are the defaults of chunk_text
MaxCharsValues == {1, 100, 304, 2400}
MaxChunksValues == {0, 1, 3}

InitChunk ==
    /\ vIn \in [clean_text : {None} \cup {Str(t) : t \in RunTexts(ChunkRuns, MaxTextRuns)},
                max_chars : MaxCharsValues,
                max_chunks : MaxChunksValues]
    /\ vOut = NoResult
    /\ xrun = <<>>
    /\ InitDb
    /\ schema = [funding_rounds |-> FALSE, updated_at_trigger |-> FALSE]

NextChunk == ChunkCall

SpecChunk == InitChunk /\ [][NextChunk]_vars

-----------------------------------------------------------------------------
(* triage.py: triage_chunk(chunk_text)                                     *)

\* lines 7-12
FOUNDERS_KW ==
    {Rle(<<"f", "o", "u", "n", "d", "e", "r">>),
     Rle(<<"c", "o", "-", "f", "o", "u", "n", "d", "e", "r">>),
     Rle(<<"c", "o", "f", "o", "u", "n", "d", "e", "r">>),
     Rle(<<"l", "e", "a", "d", "e", "r", "s", "h", "i", "p">>),
     Rle(<<"t", "e", "a", "m">>),
     Rle(<<"m", "a", "n", "a", "g", "e", "m", "e", "n", "t">>),
     Rle(<<"c", "e", "o">>),
     Rle(<<"c", "t", "o">>),
     Rle(<<"c", "f", "o">>),
     Rle(<<"c", "h", "i", "e", "f">>),
     Rle(<<"b", "o", "a", "r", "d">>),
     Rle(<<"e", "x", "e", "c", "u", "t", "i", "v", "e">>),
     Rle(<<"h", "e", "a", "d", " ", "o", "f">>)}

\* lines 14-19
FUNDING_KW ==
    {Rle(<<"r", "a", "i", "s", "e", "d">>),
     Rle(<<"f", "u", "n", "d", "i", "n", "g">>),
     Rle(<<"s", "e", "r", "i", "e", "s", " ", "a">>),
     Rle(<<"s", "e", "r", "i", "e", "s", " ", "b">>),
     Rle(<<"s", "e", "r", "i", "e", "s", " ", "c">>),
     Rle(<<"s", "e", "r", "i", "e", "s", " ", "d">>),
     Rle(<<"s", "e", "e", "d", " ", "r", "o", "u", "n", "d">>),
     Rle(<<"s", "e", "e", "d">>),
     Rle(<<"p", "r", "e", "-", "s", "e", "e", "d">>),
     Rle(<<"i", "n", "v", "e", "s", "t", "m", "e", "n", "t">>),
     Rle(<<"i", "n", "v", "e", "s", "t", "o", "r">>),
     Rle(<<"v", "a", "l", "u", "a", "t", "i", "o", "n">>),
     Rle(<<"v", "e", "n", "t", "u", "r", "e">>),
     Rle(<<"v", "c">>),
     Rle(<<"c", "a", "p", "i", "t", "a", "l">>),
     Rle(<<"f", "i", "n", "a", "n", "c", "i", "n", "g">>),
     Rle(<<"r", "o", "u", "n", "d", " ", "l", "e", "d", " ", "b", "y">>)}

\* lines 22-28
COMMERCIAL_KW ==
    {Rle(<<"p", "a", "r", "t", "n", "e", "r", "s", "h", "i", "p">>),
     Rle(<<"p", "a", "r", "t", "n", "e", "r", "e", "d">>),
     Rle(<<"s", "t", "r", "a", "t", "e", "g", "i", "c", " ", "p", "a", "r", "t", "n", "e", "r">>),
     Rle(<<"c", "u", "s", "t", "o", "m", "e", "r", "s">>),
     Rle(<<"c", "l", "i", "e", "n", "t">>),
     Rle(<<"c", "o", "n", "t", "r", "a", "c", "t">>),
     Rle(<<"d", "e", "a", "l">>),
     Rle(<<"l", "a", "u", "n", "c", "h", "e", "d">>),
     Rle(<<"l", "a", "u", "n", "c", "h">>),
     Rle(<<"r", "e", "l", "e", "a", "s", "e">>),
     Rle(<<"r", "e", "l", "e", "a", "s", "e", "d">>),
     Rle(<<"a", "n", "n", "o", "u", "n", "c", "e", "d">>),
     Rle(<<"e", "x", "p", "a", "n", "d", "s">>),
     Rle(<<"e", "x", "p", "a", "n", "s", "i", "o", "n">>),
     Rle(<<"o", "p", "e", "n", "e", "d">>),
     Rle(<<"a", "c", "q", "u", "i", "s", "i", "t", "i", "o", "n">>),
     Rle(<<"a", "c", "q", "u", "i", "r", "e", "d">>),
     Rle(<<"m", "e", "r", "g", "e", "r">>)}

\* lines 31-36
PRODUCT_KW ==
    {Rle(<<"p", "l", "a", "t", "f", "o", "r", "m">>),
     Rle(<<"p", "r", "o", "d", "u", "c", "t">>),
     Rle(<<"s", "o", "l", "u", "t", "i", "o", "n">>),
     Rle(<<"f", "e", "a", "t", "u", "r", "e", "s">>),
     Rle(<<"w", "o", "r", "k", "f", "l", "o", "w">>),
     Rle(<<"d", "a", "s", "h", "b", "o", "a", "r", "d">>),
     Rle(<<"a", "i", "-", "n", "a", "t", "i", "v", "e">>),
     Rle(<<"a", "i", " ", "t", "r", "a", "i", "n", "e", "d">>),
     Rle(<<"u", "s", "e", " ", "c", "a", "s", "e", "s">>),
     Rle(<<"p", "r", "i", "c", "i", "n", "g">>),
     Rle(<<"r", "e", "q", "u", "e", "s", "t", " ", "a", " ", "d", "e", "m", "o">>),
     Rle(<<"b", "o", "o", "k", " ", "a", " ", "d", "e", "m", "o">>),
     Rle(<<"d", "e", "m", "o">>),
     Rle(<<"c", "r", "e", "d", "i", "t", " ", "t", "e", "a", "m", "s">>),
     Rle(<<"d", "e", "b", "t", " ", "m", "a", "r", "k", "e", "t", "s">>),
     Rle(<<"d", "a", "t", "a", " ", "e", "x", "t", "r", "a", "c", "t", "i", "o", "n">>),
     Rle(<<"i", "n", "s", "i", "g", "h", "t", "s">>)}

\* lines 38-41
NOISE_KW ==
    {Rle(<<"c", "o", "o", "k", "i", "e">>),
     Rle(<<"p", "r", "i", "v", "a", "c", "y">>),
     Rle(<<"t", "e", "r", "m", "s">>),
     Rle(<<"a", "l", "l", " ", "r", "i", "g", "h", "t", "s", " ", "r", "e", "s", "e", "r", "v", "e", "d">>),
     Rle(<<"s", "u", "b", "s", "c", "r", "i", "b", "e">>),
     Rle(<<"n", "e", "w", "s", "l", "e", "t", "t", "e", "r">>),
     Rle(<<"s", "i", "g", "n", " ", "u", "p">>),
     Rle(<<"l", "o", "g", "i", "n">>)}

\* line 44: the alternatives of ROLE_RE, in lower case since the pattern
\* ignores case; Co-?Founder stands for two of them
ROLE_WORDS ==
    {Rle(<<"c", "e", "o">>),
     Rle(<<"c", "t", "o">>),
     Rle(<<"c", "f", "o">>),
     Rle(<<"c", "o", "o">>),
     Rle(<<"c", "h", "i", "e", "f">>),
     Rle(<<"f", "o", "u", "n", "d", "e", "r">>),
     Rle(<<"c", "o", "-", "f", "o", "u", "n", "d", "e", "r">>),
     Rle(<<"c", "o", "f", "o", "u", "n", "d", "e", "r">>),
     Rle(<<"v", "p">>),
     Rle(<<"v", "i", "c", "e", " ", "p", "r", "e", "s", "i", "d", "e", "n", "t">>),
     Rle(<<"h", "e", "a", "d", " ", "o", "f">>),
     Rle(<<"m", "a", "n", "a", "g", "i", "n", "g", " ", "d", "i", "r", "e", "c", "t", "o", "r">>)}

UpperCase ==
    <<"A", "B", "C", "D", "E", "F", "G", "H", "I", "J", "K", "L", "M",
      "N", "O", "P", "Q", "R", "S", "T", "U", "V", "W", "X", "Y", "Z">>
LowerCase ==
    <<"a", "b", "c", "d", "e", "f", "g", "h", "i", "j", "k", "l", "m",
      "n", "o", "p", "q", "r", "s", "t", "u", "v", "w", "x", "y", "z">>
Digits == {"0", "1", "2", "3", "4", "5", "6", "7", "8", "9"}

\* the characters re's \w matches
WordChars ==
    {UpperCase[i] : i \in 1..26} \cup {LowerCase[i] : i \in 1..26}
    \cup Digits \cup {"_"}

LowerChar(c) ==
    IF \E i \in 1..26 : UpperCase[i] = c
    THEN LowerCase[CHOOSE i \in 1..26 : UpperCase[i] = c]
    ELSE c

\* adjacent runs of one character merged, the two halves first
RECURSIVE Canon(_)
Canon(t) ==
    IF Len(t) <= 1 THEN t
    ELSE TCat(Canon(SubSeq(t, 1, Len(t) \div 2)),
              Canon(SubSeq(t, Len(t) \div 2 + 1, Len(t))))

\* line 55: t.lower()
TLower(t) == Canon([i \in 1..Len(t) |-> Run(LowerChar(t[i].c), t[i].n)])

\* line 54: re.sub(r"\s+", " ", chunk_text): every longest stretch of
\* whitespace characters becomes one blank
AsBlanks(t) ==
    [i \in 1..Len(t) |-> IF t[i].c \in WS THEN Run(" ", t[i].n) ELSE t[i]]

OneBlankEach(t) ==
    [i \in 1..Len(t) |-> IF t[i].c = " " THEN Run(" ", 1) ELSE t[i]]

CollapseSpace(t) == OneBlankEach(Canon(AsBlanks(t)))

\* line 47: kw in text_l; the keyword lies in the text from run i on when
\* its inner runs are runs of the text and its first and last run are the
\* end and the start of runs of the text
ContainsAt(text, kw, i) ==
    /\ i + Len(kw) - 1 <= Len(text)
    /\ \A j \in 1..Len(kw) :
          /\ text[i + j - 1].c = kw[j].c
          /\ IF j = 1 \/ j = Len(kw) THEN text[i + j - 1].n >= kw[j].n
             ELSE text[i + j - 1].n = kw[j].n

TContains(text, kw) == \E i \in 1..Len(text) : ContainsAt(text, kw, i)

\* lines 46-47
_score_keywords(text_l, kws) == Cardinality({kw \in kws : TContains(text_l, kw)})

\* line 44: \b(word)\b matches from run i on: the runs are those of the
\* word, the character before is no word character and neither is the
\* character after
RoleAt(text, word, i) ==
    /\ i + Len(word) - 1 <= Len(text)
    /\ \A j \in 1..Len(word) : text[i + j - 1] = word[j]
    /\ i = 1 \/ text[i - 1].c \notin WordChars
    /\ i + Len(word) > Len(text) \/ text[i + Len(word)].c \notin WordChars

RoleStartsAt(text, i) == \E w \in ROLE_WORDS : RoleAt(text, w, i)

\* line 67: len(ROLE_RE.findall(t)), the matches found from left to right
\* from run i on: the next match counts and the search goes on behind it
RECURSIVE RoleHits(_, _)
RoleHitsBehind(text, j) ==
    1 + RoleHits(text, j + Len(CHOOSE w \in ROLE_WORDS : RoleAt(text, w, j)))

RoleHits(text, i) ==
    IF \A j \in i..Len(text) : ~RoleStartsAt(text, j) THEN 0
    ELSE RoleHitsBehind(text,
                        CHOOSE j \in i..Len(text) :
                           /\ RoleStartsAt(text, j)
                           /\ \A k \in i..(j - 1) : ~RoleStartsAt(text, k))

Verdict(labels, confidence, reason) ==
    [labels |-> labels, confidence |-> confidence, reason |-> reason]

\* lines 74-90: the labels, in the order of the rules (LabelsFundingBar6:
\* funding asks for six keywords)
LabelsFundingBar6(founders, funding, commercial, role_hits) ==
    (IF founders >= 2 \/ role_hits >= 2 THEN <<"founders_team">> ELSE <<>>)
    \o (IF funding >= 6 THEN <<"funding">> ELSE <<>>)
    \o (IF commercial >= 2 THEN <<"commercial_event">> ELSE <<>>)
Labels(founders, funding, commercial, role_hits) ==
    (IF founders >= 2 \/ role_hits >= 2 THEN <<"founders_team">> ELSE <<>>)
    \o (IF funding >= 2 THEN <<"funding">> ELSE <<>>)
    \o (IF commercial >= 2 THEN <<"commercial_event">> ELSE <<>>)

\* lines 76-90: the parts of the reason, each a name and a count
ReasonParts(founders, funding, commercial_base, product, role_hits) ==
    (IF founders >= 2 \/ role_hits >= 2
     THEN <<<<"founders_kw", founders>>>>
          \o (IF role_hits # 0 THEN <<<<"role_hits", role_hits>>>> ELSE <<>>)
     ELSE <<>>)
    \o (IF funding >= 2 THEN <<<<"funding_kw", funding>>>> ELSE <<>>)
    \o (IF commercial_base + product >= 2
        THEN <<<<"commercial_kw", commercial_base>>, <<"product_kw", product>>>>
        ELSE <<>>)

\* lines 103-105, the confidence in hundredths (SignalConfidenceUncapped:
\* line 103 alone)
SignalConfidenceUncapped(signal) == 55 + 7 * signal
SignalConfidence(signal) == max(60, min(95, 55 + 7 * signal))

\* lines 61-107: the verdict on a text that is long enough
Score(t, founders, funding, commercial_base, product, noise, role_hits) ==
    IF Labels(founders, funding, commercial_base + product, role_hits) = <<>>
    THEN IF noise >= 2 THEN Verdict(<<"irrelevant">>, 85, <<<<"noise_kw", noise>>>>)
         ELSE Verdict(<<"irrelevant">>, IF TLen(t) > 1200 THEN 65 ELSE 70,
                      <<"no_signal">>)
    ELSE Verdict(Labels(founders, funding, commercial_base + product, role_hits),
                 SignalConfidence(founders + funding + commercial_base + product
                                  + min(role_hits, 3)),
                 ReasonParts(founders, funding, commercial_base, product, role_hits))

\* line 58: the quick exit (TooShortNever: the exit left out)
TooShortNever(t) == FALSE
TooShort(t) == TLen(t) < 250

\* lines 58-107, t the normalized text and tl its lower case
Triage(t, tl) ==
    IF TooShort(t) THEN Verdict(<<"irrelevant">>, 90, <<"too_short">>)
    ELSE Score(t, _score_keywords(tl, FOUNDERS_KW), _score_keywords(tl, FUNDING_KW),
               _score_keywords(tl, COMMERCIAL_KW), _score_keywords(tl, PRODUCT_KW),
               _score_keywords(tl, NOISE_KW), RoleHits(tl, 1))

\* line 54
Normalized(chunk) == TStrip(CollapseSpace(chunk))

triage_chunk(chunk) == Triage(Normalized(chunk), TLower(Normalized(chunk)))

\* run_extract_all.py line 85: the text of a chunk is triaged
TriageCall ==
    /\ vOut = NoResult
    /\ vOut' = triage_chunk(vIn.chunk)
    /\ UNCHANGED <<txs, batch, vIn, db, sources, schema, clock, last, prev, xrun>>

\* the example of the specification: a name, a role line, a blank line and
\* a funding sentence
ExampleText ==
    Rle(<<
        "J", "a", "n", "e", " ", "D", "o", "e", "\n", "F", "o", "u",
        "n", "d", "e", "r", " ", "&", " ", "C", "E", "O", "\n",
        "\n", "W", "e", " ", "r", "a", "i", "s", "e", "d", " ", "a",
        " ", "$", "5", "M", " ", "s", "e", "e", "d", " ", "r", "o",
        "u", "n", "d", " ", "l", "e", "d", " ", "b", "y", " ", "A",
        "c", "m", "e", " ", "V", "e", "n", "t", "u", "r", "e", "s",
        ".">>)

\* what chunk texts are made of: words and phrases of the keyword lists,
\* blanks, line breaks and filling of 243, 250 and 1300 letters
TriagePieces ==
    {Rle(<<"c", "o", "-", "f", "o", "u", "n", "d", "e", "r">>),
     Rle(<<"C", "E", "O">>),
     Rle(<<"H", "e", "a", "d", " ", "o", "f">>),
     Rle(<<"s", "e", "e", "d", " ", "r", "o", "u", "n", "d">>),
     Rle(<<"r", "a", "i", "s", "e", "d", " ", "a", " ", "s", "e", "e", "d", " ", "r", "o", "u", "n", "d">>),
     Rle(<<"l", "a", "u", "n", "c", "h", "e", "d">>),
     Rle(<<"d", "e", "m", "o">>),
     Rle(<<"c", "o", "o", "k", "i", "e">>),
     Rle(<<"p", "r", "i", "v", "a", "c", "y">>),
     <<Run(" ", 1)>>, <<Run(" ", 300)>>, <<Run("\n", 2)>>,
     <<Run("x", 243)>>, <<Run("x", 250)>>, <<Run("x", 1300)>>}

RECURSIVE Concat(_)
Concat(parts) == IF parts = <<>> THEN <<>> ELSE TCat(Head(parts), Concat(Tail(parts)))

\* the texts of at most n pieces
PieceTexts(n) == {Concat(ps) : ps \in UNION {SeqN(TriagePieces, k) : k \in 0..n}}

InitTriage ==
    /\ vIn \in [chunk : PieceTexts(MaxPieces)]
    /\ vOut = NoResult
    /\ xrun = <<>>
    /\ InitDb
    /\ schema = [funding_rounds |-> FALSE, updated_at_trigger |-> FALSE]

NextTriage == TriageCall

SpecTriage == InitTriage /\ [][NextTriage]_vars

-----------------------------------------------------------------------------
(* The example of the specification through chunk_text and triage_chunk    *)

\* the example with n letters free of keywords: after its last sentence,
\* as a paragraph after it, or as a paragraph before it
Padded(place, n) ==
    IF n = 0 THEN ExampleText
    ELSE IF place = "same"
    THEN TCat(ExampleText, <<Run(" ", 1), Run("x", n)>>)
    ELSE IF place = "after"
    THEN TCat(ExampleText, <<Run("\n", 2), Run("x", n)>>)
    ELSE TCat(<<Run("x", n), Run("\n", 2)>>, ExampleText)

Places == {"same", "after", "before"}

TriageEach(chunks) == [i \in 1..Len(chunks) |-> triage_chunk(chunks[i].text)]

\* run_extract_all.py lines 73-85: the text is chunked and the text of
\* every chunk is triaged
ChunkAndTriage ==
    /\ vOut = NoResult
    /\ vOut' = [chunks |-> chunk_text(vIn.clean_text, vIn.max_chars, vIn.max_chunks),
                triage |-> TriageEach(chunk_text(vIn.clean_text, vIn.max_chars,
                                                 vIn.max_chunks))]
    /\ UNCHANGED <<txs, batch, vIn, db, sources, schema, clock, last, prev, xrun>>

\* the paddings: the lengths around the two length tests and around the
\* size of one chunk, and some far from them
PadLengths ==
    (120..(120 + PadWindow)) \cup (2300..(2300 + PadWindow))
    \cup {0, 1000, 2400, 5000, 10000}

InitExample ==
    /\ vIn \in {[clean_text |-> Str(Padded(place, n)), max_chars |-> 2400,
                 max_chunks |-> 3, place |-> place, pad |-> n] :
                    place \in Places, n \in PadLengths}
    /\ vOut = NoResult
    /\ xrun = <<>>
    /\ InitDb
    /\ schema = [funding_rounds |-> FALSE, updated_at_trigger |-> FALSE]

NextExample == ChunkAndTriage

SpecExample == InitExample /\ [][NextExample]_vars

-----------------------------------------------------------------------------
(* fetch.py: fetch_url(client, url, retries), one loop iteration a step    *)

\* what client.get(url) does: it answers with a status code, or raises
Answer(code) == [kind |-> "status", code |-> code, exc |-> ""]
Raise(exc) == [kind |-> "raise", code |-> 0, exc |-> exc]

Statuses == {200, 204, 401, 402, 403, 404, 410, 429, 500, 503}
Raised == {"TimeoutException", "ConnectError", "DecodingError"}
Outcomes == {Answer(c) : c \in Statuses} \cup {Raise(e) : e \in Raised}

\* lines 116, 122, 127: the except clause that takes an exception
\* (HandlerWithoutCatchAll: without `except Exception`)
HandlerWithoutCatchAll(exc) ==
    IF exc = "TimeoutException" THEN "timeout"
    ELSE IF exc = "HTTPStatusError" THEN "status"
    ELSE "none"
Handler(exc) ==
    IF exc = "TimeoutException" THEN "timeout"
    ELSE IF exc = "HTTPStatusError" THEN "status"
    ELSE "other"

\* no status (Python's None) is code 0 below
FetchStart(retries) ==
    [pc |-> "loop", retries |-> retries, attempt |-> 0, last_status |-> 0,
     requests |-> <<>>, html |-> FALSE, status |-> 0, escaped |-> FALSE]

\* return html, status
Return(f, html, status) ==
    [f EXCEPT !.pc = "returned", !.html = html, !.status = status]

\* `continue` after the sleep
Continue(f) == [f EXCEPT !.attempt = @ + 1]

\* lines 116-131: an exception raised in the try block
Except(f, exc) ==
    IF Handler(exc) = "status" THEN Return(f, FALSE, f.last_status)
    ELSE IF Handler(exc) \in {"timeout", "other"}
    THEN (IF f.attempt < f.retries THEN Continue(f)
          ELSE Return(f, FALSE, f.last_status))
    ELSE [f EXCEPT !.pc = "raised", !.escaped = TRUE]

\* lines 95-114: the response has status code s; any status that is no
\* success makes raise_for_status raise the HTTPStatusError of lines 122-125
Response(f, s) ==
    IF s \in {401, 402, 403} THEN Return(f, FALSE, s)
    ELSE IF s \in {404, 410} THEN Return(f, FALSE, s)
    ELSE IF s = 429
    THEN (IF f.attempt < f.retries THEN Continue(f) ELSE Return(f, FALSE, s))
    ELSE IF s \in 200..299 THEN Return(f, TRUE, s)
    ELSE Except(f, "HTTPStatusError")

\* lines 92-133: one iteration of the loop, or the return behind it
Attempt(f, outcome) ==
    IF f.attempt >= f.retries + 1 THEN Return(f, FALSE, f.last_status)
    ELSE IF outcome.kind = "status"
    THEN Response([f EXCEPT !.requests = Append(@, outcome),
                            !.last_status = outcome.code],
                  outcome.code)
    ELSE Except([f EXCEPT !.requests = Append(@, outcome)], outcome.exc)

FetchUrlStep ==
    /\ vOut.pc = "loop"
    /\ \E outcome \in Outcomes : vOut' = Attempt(vOut, outcome)
    /\ UNCHANGED <<txs, batch, vIn, db, sources, schema, clock, last, prev, xrun>>

InitFetchUrl ==
    /\ vIn \in [retries : 0..MaxRetries]
    /\ vOut = FetchStart(vIn.retries)
    /\ xrun = <<>>
    /\ InitDb
    /\ schema = [funding_rounds |-> FALSE, updated_at_trigger |-> FALSE]

NextFetchUrl == FetchUrlStep

SpecFetchUrl == InitFetchUrl /\ [][NextFetchUrl]_vars

-----------------------------------------------------------------------------
(* Properties *)

IsPrefix(a, b) == Len(a) <= Len(b) /\ SubSeq(b, 1, Len(a)) = a

\* the candidates of a payload that pass the guards of persist (name and
\* quote; type, title and quote; round_type and quote), with their identity
PersistedPeople(accepted) ==
    SelectSeq(accepted.people,
              LAMBDA p : OrEmptyStrip(p.name) # <<>>
                         /\ OrEmptyStrip(p.evidence_quote) # <<>>)
PersistedEvents(accepted) ==
    SelectSeq(accepted.events,
              LAMBDA e : /\ OrEmptyStrip(e.type) # <<>>
                         /\ OrEmptyStrip(e.title) # <<>>
                         /\ OrEmptyStrip(e.evidence_quote) # <<>>)
PersistedFunding(accepted) ==
    SelectSeq(accepted.funding_rounds,
              LAMBDA f : /\ OrEmptyStrip(f.round_type) # <<>>
                         /\ OrEmptyStrip(f.evidence_quote) # <<>>)

PersonRowsOf(company_id, p) ==
    {i \in 1..Len(db.people) :
        /\ db.people[i].company_id = company_id
        /\ db.people[i].normalized_name = _norm_name(OrEmptyStrip(p.name))}
EventRowsOf(company_id, e) ==
    {i \in 1..Len(db.events) :
        /\ db.events[i].company_id = company_id
        /\ db.events[i].type = OrEmptyStrip(e.type)
        /\ db.events[i].date = e.date
        /\ db.events[i].title_hash = _title_hash(OrEmptyStrip(e.title))}
FundingRowsOf(company_id, f) ==
    {i \in 1..Len(db.events) :
        /\ db.events[i].company_id = company_id
        /\ db.events[i].type = <<"funding">>
        /\ db.events[i].date = f.date
        /\ db.events[i].title_hash =
               _title_hash(Upper(OrEmptyStrip(f.round_type)) \o <<" ", "round">>)}

\* the evidence rows the latest operation appended
Appended == SubSeq(db.evidence, Len(last.pre.evidence) + 1, Len(db.evidence))

\* C1: every Person, Event and FundingRound in the accepted payload returned
\* by validate_extraction_for_chunk carries an evidence_quote field that is a
\* non-empty, exact substring of the chunk text.
C1_AcceptedQuoteIsExactSubstring ==
    vOut # NoResult =>
        \A item \in Range(vOut.accepted.people) \cup Range(vOut.accepted.events)
                      \cup Range(vOut.accepted.funding_rounds) :
            /\ item.evidence_quote.t = "str"
            /\ item.evidence_quote.s # <<>>
            /\ Contains(vIn.chunk_text, item.evidence_quote.s)

\* the rows of `post` that are not rows of `pre` as they were
Written(pre, post) ==
    {post[i] : i \in {j \in 1..Len(post) : j > Len(pre) \/ post[j] # pre[j]}}

\* C2: after a run of run_extract_all every Evidence row it wrote has a quote
\* that is a non-empty exact substring of the text of the chunk whose
\* extraction produced it, and every Person, Event and Evidence row it wrote
\* belongs to a candidate the Validator accepted for that chunk.
C2_RunWritesOnlyValidatedEvidence ==
    last.op = "run_extract_all" =>
        /\ db.evidence =
              last.pre.evidence \o
              SubSeq(db.evidence, Len(last.pre.evidence) + 1, Len(db.evidence))
        /\ \A k \in 1..Len(xrun) :
              LET rec == xrun[k]
                  before == IF k = 1 THEN last.pre ELSE xrun[k - 1].post
                  ok == IF rec.extraction = Raises
                        THEN Payload(<<>>, <<>>, <<>>)
                        ELSE validate_extraction_for_chunk(rec.extraction,
                                                           rec.text).accepted
              IN  /\ rec.pre = before
                  /\ rec.status # "persisted" => rec.post = rec.pre
                  /\ k = Len(xrun) => rec.post = db
                  /\ \A row \in Written(rec.pre.evidence, rec.post.evidence) :
                        /\ row.quote # <<>>
                        /\ Contains(rec.text, row.quote)
                        /\ \E c \in Range(ok.people) \cup Range(ok.events)
                                      \cup Range(ok.funding_rounds) :
                              OrEmptyStrip(c.evidence_quote) = row.quote
                  /\ \A row \in Written(rec.pre.people, rec.post.people) :
                        \E c \in Range(ok.people) :
                            _norm_name(OrEmptyStrip(c.name)) = row.normalized_name
                  /\ \A row \in Written(rec.pre.events, rec.post.events) :
                        \/ \E c \in Range(ok.events) :
                              _title_hash(OrEmptyStrip(c.title)) = row.title_hash
                        \/ \E c \in Range(ok.funding_rounds) :
                              row.type = <<"funding">>

\* C2 witness: a run that persisted one chunk whose extraction had an accepted
\* and a rejected candidate, and wrote nothing for a chunk whose persist failed
C2_Witness_AcceptedAndRejected ==
    /\ last.op = "run_extract_all"
    /\ \E k \in 1..Len(xrun) :
          /\ xrun[k].status = "persisted"
          /\ Len(xrun[k].extraction.people) = 2
          /\ Len(xrun[k].post.people) = Len(xrun[k].pre.people) + 1
    /\ \E k \in 1..Len(xrun) : xrun[k].status = "upsert_fail"

\* C3: persisting the same accepted payload twice for the same company and
\* source leaves exactly one Person row and exactly one Event row per identity
\* key of the payload (events and funding rounds with a null date included),
\* and two Evidence rows per item.
C3_PersistTwiceOneRowPerIdentity ==
    (/\ last.op = "persist" /\ prev.op = "persist"
     /\ ~last.raised /\ ~prev.raised
     /\ last.company_id = prev.company_id /\ last.arg = prev.arg) =>
        LET a == last.arg.accepted
            c == last.company_id
            n == Len(PersistedPeople(a)) + Len(PersistedEvents(a))
                    + Len(PersistedFunding(a))
        IN  /\ \A p \in Range(PersistedPeople(a)) :
                    Cardinality(PersonRowsOf(c, p)) = 1
            /\ \A e \in Range(PersistedEvents(a)) :
                    Cardinality(EventRowsOf(c, e)) = 1
            /\ \A f \in Range(PersistedFunding(a)) :
                    Cardinality(FundingRowsOf(c, f)) = 1
            /\ Len(db.evidence) = Len(prev.pre.evidence) + 2 * n

\* C4: persist_accepted_extraction is all-or-nothing: when it raises, the
\* committed tables are what they were before the call; when it returns,
\* every candidate that passed the guards has its entity row and an Evidence
\* row of this transaction, all committed together.
C4_PersistAllOrNothing ==
    last.op = "persist" =>
        IF last.raised THEN db = last.pre
        ELSE LET a == last.arg.accepted
                 c == last.company_id
                 Cited(type, ids, item) ==
                    \E k \in 1..Len(Appended) :
                        /\ Appended[k].object_type = type
                        /\ Appended[k].object_id \in ids
                        /\ Appended[k].quote = OrEmptyStrip(item.evidence_quote)
                        /\ Appended[k].created_at = clock
             IN  /\ \A p \in Range(PersistedPeople(a)) :
                        Cited("person", PersonRowsOf(c, p), p)
                 /\ \A e \in Range(PersistedEvents(a)) :
                        Cited("event", EventRowsOf(c, e), e)
                 /\ \A f \in Range(PersistedFunding(a)) :
                        Cited("event", FundingRowsOf(c, f), f)
                 /\ Len(Appended) = Len(PersistedPeople(a)) + Len(PersistedEvents(a))
                                        + Len(PersistedFunding(a))

\* C4 witness: a call that raised after it had already written a Person row
\* inside the transaction
C4_Witness_RaisedPartWay ==
    last.op = "persist" /\ last.raised /\ last.ret.evidence_inserted > 0

\* C5: an Evidence row once committed is never modified or deleted by any
\* pipeline operation: the committed Evidence table only grows at its end.
C5_EvidenceAppendOnly == [][IsPrefix(db.evidence, db'.evidence)]_vars

\* C5 witness: Evidence exists, a later persist touched the same Person
\* again, and run_diff and a source operation ran after it
C5_Witness_OpsAfterEvidence ==
    /\ Len(db.evidence) >= 2
    /\ db.evidence[1].object_id = db.evidence[2].object_id
    /\ db.evidence[1].created_at < db.evidence[2].created_at
    /\ last.op \in {"run_diff", "fetch_pending", "fetch", "discover", "web_search"}

\* C6: every item inserted or updated by a persist call appends exactly one
\* Evidence row carrying the affected entity id, the source id, the url, the
\* quote and the extractor version; evidence_inserted is the sum of the three
\* upsert counters and the Evidence table grows by that number.
C6_OneEvidencePerUpsert ==
    (last.op = "persist" /\ ~last.raised) =>
        LET a == last.arg.accepted
            c == last.company_id
            P == PersistedPeople(a)
            E == PersistedEvents(a)
            F == PersistedFunding(a)
            Cites(row, type, ids, item) ==
                /\ row.object_type = type
                /\ row.object_id \in ids
                /\ row.source_id = last.arg.source_id
                /\ row.url = last.arg.url
                /\ row.quote = OrEmptyStrip(item.evidence_quote)
                /\ row.extractor_version = a.extractor_version
        IN  /\ last.ret.people_upserted = Len(P)
            /\ last.ret.events_upserted = Len(E)
            /\ last.ret.funding_upserted = Len(F)
            /\ last.ret.evidence_inserted = Len(P) + Len(E) + Len(F)
            /\ Len(db.evidence) = Len(last.pre.evidence) + last.ret.evidence_inserted
            /\ \A k \in 1..Len(P) :
                    Cites(Appended[k], "person", PersonRowsOf(c, P[k]), P[k])
            /\ \A k \in 1..Len(E) :
                    Cites(Appended[Len(P) + k], "event", EventRowsOf(c, E[k]), E[k])
            /\ \A k \in 1..Len(F) :
                    Cites(Appended[Len(P) + Len(E) + k], "event",
                          FundingRowsOf(c, F[k]), F[k])

\* C6 witness: a call that skipped candidates, inserted an Event and a funding
\* Event and updated nothing else, after an earlier call
C6_Witness_MixedPayload ==
    /\ last.op = "persist" /\ ~last.raised
    /\ last.ret.people_upserted = 1 /\ last.ret.events_upserted = 1
    /\ last.ret.funding_upserted = 1
    /\ Len(last.arg.accepted.people) = 2
    /\ Len(last.pre.evidence) > 0

\* C7: a second run_diff right after a run_diff of the same company inserts
\* no Change row, returns only zero counts and leaves the Change log as the
\* first run left it.
C7_SecondDiffInsertsNothing ==
    (/\ last.op = "run_diff" /\ prev.op = "run_diff"
     /\ last.company_id = prev.company_id) =>
        /\ last.emitted = <<>>
        /\ last.ret = [people |-> 0, events |-> 0, funding_rounds |-> 0, total |-> 0]
        /\ db.changes = last.pre.changes

\* C8: a run_diff run records a new_event Change for every Event of the
\* company created after the watermark the Change log had when the run began.
C8_EveryNewEventDetected ==
    last.op = "run_diff" =>
        \A i \in 1..Len(db.events) :
            (/\ db.events[i].company_id = last.company_id
             /\ db.events[i].created_at > last.wm0) =>
                \E k \in 1..Len(last.emitted) :
                    /\ last.emitted[k].change_type = "new_event"
                    /\ last.emitted[k].object_id = i

\* C9: a run_diff run emits exactly one new_person Change for every Person of
\* the company created after the watermark, and none for a Person created at
\* or before it; where every table of the run exists the emitted rows are the
\* rows the run adds to the Change log.
C9_NewPersonExactlyOnce ==
    last.op = "run_diff" =>
        /\ (\A i \in 1..Len(db.people) :
            db.people[i].company_id = last.company_id =>
                Cardinality({k \in 1..Len(last.emitted) :
                                /\ last.emitted[k].change_type = "new_person"
                                /\ last.emitted[k].object_type = "person"
                                /\ last.emitted[k].company_id = last.company_id
                                /\ last.emitted[k].object_id = i})
                    = IF db.people[i].created_at > last.wm0 THEN 1 ELSE 0)
        /\ schema.funding_rounds =>
                SubSeq(db.changes, Len(last.pre.changes) + 1, Len(db.changes))
                    = last.emitted

\* C9 witness: a run over a company that has one Person created before the
\* recorded watermark and one created after it
C9_Witness_OldAndNewPerson ==
    /\ last.op = "run_diff"
    /\ last.wm0 > Epoch
    /\ \E i, j \in 1..Len(db.people) :
          /\ db.people[i].company_id = last.company_id
          /\ db.people[j].company_id = last.company_id
          /\ db.people[i].created_at <= last.wm0
          /\ db.people[j].created_at > last.wm0

\* C10: when the funding_rounds table is absent, run_diff does not raise, the
\* funding detector contributes 0 and the Change rows the other detectors
\* recorded in the run are committed.
C10_MissingFundingTableIsolated ==
    (last.op = "run_diff" /\ ~schema.funding_rounds) =>
        /\ ~last.raised
        /\ last.ret.funding_rounds = 0
        /\ db.changes = last.pre.changes \o last.emitted

\* the positions of the updated_role changes of a person in a change log
RoleChangesOf(changes, company_id, person_id) ==
    {k \in 1..Len(changes) :
        /\ changes[k].company_id = company_id
        /\ changes[k].change_type = "updated_role"
        /\ changes[k].object_type = "person"
        /\ changes[k].object_id = person_id}

\* the Persons of the run's company updated after the watermark of the run
UpdatedSince ==
    {i \in 1..Len(db.people) :
        /\ db.people[i].company_id = last.company_id
        /\ db.people[i].updated_at > last.wm0}

\* C11: for a Person updated after the watermark with no recorded
\* updated_role change, a run_diff run records exactly one updated_role
\* change, with details {field: role, from: null, to: current role}, whatever
\* the role is and also when the Person was only just created.
C11_FirstRoleChangeIsBaseline ==
    last.op = "run_diff" =>
        \A i \in UpdatedSince :
            RoleChangesOf(last.pre.changes, last.company_id, i) = {} =>
                LET ks == RoleChangesOf(last.emitted, last.company_id, i)
                IN  /\ Cardinality(ks) = 1
                    /\ \A k \in ks :
                          /\ last.emitted[k].details =
                                [present |-> TRUE, field |-> "role", from |-> None,
                                 to |-> Str(db.people[i].role)]
                          /\ schema.funding_rounds =>
                                db.changes[Len(last.pre.changes) + k] = last.emitted[k]

\* C11 witness: a run after an earlier recorded run that meets a Person just
\* created and one with an empty role, and records the baseline change for the
\* first
C11_Witness_BaselineForNewPerson ==
    /\ last.op = "run_diff"
    /\ last.wm0 > Epoch
    /\ \E j \in 1..Len(db.people) : db.people[j].role = <<>>
    /\ \E i \in UpdatedSince :
          /\ db.people[i].created_at > last.wm0
          /\ RoleChangesOf(last.pre.changes, last.company_id, i) = {}
          /\ RoleChangesOf(db.changes, last.company_id, i) # {}

\* C12: for a Person updated after the watermark that has a recorded
\* updated_role change, a run_diff run records a new one exactly when the
\* current role differs from the `to` of the most recent one, with from = that
\* `to` and to = the current role; in every change log each updated_role
\* change of a person after the first has the `to` of the one before as from.
C12_RoleChangeChainsFromLast ==
    /\ last.op = "run_diff" =>
          \A i \in UpdatedSince :
              LET old == RoleChangesOf(last.pre.changes, last.company_id, i)
                  ks == RoleChangesOf(last.emitted, last.company_id, i)
              IN  old # {} =>
                     LET before == last.pre.changes[Max(old)].details.to
                         role == Str(db.people[i].role)
                     IN  IF role.s = before.s
                         THEN ks = {}
                         ELSE /\ Cardinality(ks) = 1
                              /\ \A k \in ks :
                                    last.emitted[k].details =
                                       [present |-> TRUE, field |-> "role",
                                        from |-> before, to |-> role]
    /\ \A c \in Companies, i \in 1..Len(db.people) :
          LET ks == RoleChangesOf(db.changes, c, i)
          IN  \A k \in ks :
                 LET earlier == {j \in ks : j < k}
                 IN  earlier # {} =>
                        db.changes[k].details.from =
                            db.changes[Max(earlier)].details.to

\* C12 witness: a run that recorded a second updated_role change of a Person,
\* chained to the first
C12_Witness_SecondRoleChange ==
    /\ last.op = "run_diff"
    /\ \E i \in UpdatedSince :
          /\ RoleChangesOf(last.pre.changes, last.company_id, i) # {}
          /\ RoleChangesOf(last.emitted, last.company_id, i) # {}
          /\ Cardinality(RoleChangesOf(db.changes, last.company_id, i)) = 2

\* C13: when a persist call changes the role of an already existing Person,
\* the run_diff that follows it records an updated_role change for that
\* Person whose `to` is the new role.
C13_RoleUpdateDetectedByNextDiff ==
    (/\ last.op = "run_diff" /\ prev.op = "persist" /\ ~prev.raised
     /\ prev.company_id = last.company_id) =>
        \A i \in 1..Len(prev.pre.people) :
            (/\ prev.pre.people[i].company_id = last.company_id
             /\ prev.pre.people[i].role # db.people[i].role) =>
                \E k \in RoleChangesOf(last.emitted, last.company_id, i) :
                    last.emitted[k].details.to = Str(db.people[i].role)

\* C14: in a run of run_extract_all a chunk that triage_chunk labels
\* irrelevant is skipped: extract_chunk is not called on it and nothing is
\* persisted for it.
C14_IrrelevantChunksSkipped ==
    last.op = "run_extract_all" =>
        \A k \in 1..Len(xrun) :
            "irrelevant" \in Range(xrun[k].labels) =>
                /\ xrun[k].status = "triage_skip"
                /\ xrun[k].post = xrun[k].pre

\* the chunks a run of run_extract_all has to go through
ChunksOfRun == AllChunks(load_sources(sources, last.company_id))

FailedSteps == {k \in 1..Len(xrun) : xrun[k].status \in {"extract_fail", "upsert_fail"}}

\* C15: when extract_chunk or persist_accepted_extraction raises for a chunk
\* of a run of run_extract_all, the chunk leaves no committed write, the
\* rejected-steps counter grows by one, and every remaining chunk of the
\* source and of the later sources is processed, a later persist committing.
C15_ChunkFailureIsIsolated ==
    last.op = "run_extract_all" =>
        /\ Len(xrun) = Len(ChunksOfRun)
        /\ \A k \in 1..Len(xrun) :
              /\ xrun[k].text = ChunksOfRun[k].text
              /\ xrun[k].source_id = ChunksOfRun[k].src.source_id
              /\ xrun[k].extraction = Raises => k \in FailedSteps
              /\ k \in FailedSteps =>
                    /\ xrun[k].post = xrun[k].pre
                    /\ k < Len(xrun) => xrun[k + 1].pre = xrun[k].pre
              /\ xrun[k].status = "persisted" =>
                    /\ Len(xrun[k].post.evidence) > Len(xrun[k].pre.evidence)
                    /\ IsPrefix(xrun[k].post.evidence, db.evidence)
                    /\ IsPrefix(xrun[k].post.people, db.people)
        /\ last.ret.rejected_steps = Cardinality(FailedSteps)

\* C15 witness: a run in which the persist of the first chunk of a source
\* raised and the second chunk of the same source was persisted
C15_Witness_PersistAfterFailure ==
    /\ last.op = "run_extract_all"
    /\ Len(xrun) = 2
    /\ xrun[1].status = "upsert_fail"
    /\ xrun[2].status = "persisted"
    /\ xrun[1].source_id = xrun[2].source_id

\* the steps of the log that belong to a company
StepsOf(i) == {k \in 1..Len(batch.log) : batch.log[k].company = i}

\* C16: in the batch driver a failed step of one company never aborts the
\* batch: the run reaches its end with every company of the seed list
\* processed, and within a company a failed stage does not keep the later
\* stages from being attempted.
C16_BatchSurvivesStepFailures ==
    batch.stage # "idle" =>
        /\ batch.stage # "aborted"
        /\ batch.stage = "done" =>
              \A i \in 1..batch.n : \A j \in 1..Len(STAGES) :
                  \E k \in StepsOf(i) : batch.log[k].stage = STAGES[j]
        /\ \A k \in 1..Len(batch.log) :
              (~batch.log[k].ok /\ k < Len(batch.log)) =>
                  batch.log[k + 1].stage # batch.log[k].stage

\* how often a reason occurs among the reject reasons of the call
CountReason(reason) ==
    Cardinality({k \in 1..Len(vOut.stats.reject_reasons) :
                    vOut.stats.reject_reasons[k] = reason})

\* a candidate whose processing raises: not an object, or a number where the
\* loop calls a str method or tests str containment
Malformed(c) ==
    \/ ~c.dict
    \/ c.evidence_quote.t = "num"

\* how many candidates of a list are malformed
CountMalformed(items) == Cardinality({k \in 1..Len(items) : Malformed(items[k])})

\* the quote of a candidate, trimmed, occurs in the chunk text
QuoteFound(c) ==
    /\ c.dict /\ c.evidence_quote.t = "str"
    /\ Strip(c.evidence_quote.s) # <<>>
    /\ Contains(vIn.chunk_text, Strip(c.evidence_quote.s))

\* C17: every FundingRound accepted by validate_extraction_for_chunk with a
\* non-null amount has the string form of the amount inside its evidence
\* quote; a candidate whose amount string is absent from the quote is not
\* accepted, and is rejected as funding_amount_not_in_quote when its round
\* type and quote pass.
C17_NoFabricatedAmount ==
    vOut # NoResult =>
        LET AmountAbsent(f) ==
                /\ f.dict /\ f.amount.t # "none" /\ f.evidence_quote.t = "str"
                /\ ~Contains(f.evidence_quote.s, f.amount.s)
            RejectedForAmount(f) ==
                /\ AmountAbsent(f) /\ QuoteFound(f)
                /\ f.round_type.t = "str" /\ Strip(f.round_type.s) \in ROUND_TYPES
        IN  /\ \A f \in Range(vOut.accepted.funding_rounds) :
                  f.amount.t # "none" => Contains(f.evidence_quote.s, f.amount.s)
            /\ \A f \in Range(vIn.extraction.funding_rounds) :
                  AmountAbsent(f) => f \notin Range(vOut.accepted.funding_rounds)
            /\ CountReason("funding_amount_not_in_quote") =
                  Cardinality({k \in 1..Len(vIn.extraction.funding_rounds) :
                      RejectedForAmount(vIn.extraction.funding_rounds[k])})

\* C17 witness: a call that accepted a round whose amount is in its quote and
\* rejected one whose amount 5000000 is not in the quote "$5M"
C17_Witness_AmountCheckedBothWays ==
    /\ vOut # NoResult
    /\ \E f \in Range(vOut.accepted.funding_rounds) : f.amount.t # "none"
    /\ \E f \in Range(vIn.extraction.funding_rounds) :
          /\ f.amount = Num(<<"5000000">>)
          /\ f.evidence_quote = Str(<<"$", "5", "M">>)
    /\ CountReason("funding_amount_not_in_quote") = 1

\* C18: every Person accepted by validate_extraction_for_chunk has a null or
\* empty linkedin_url or one that occurs inside its evidence quote; a
\* candidate whose linkedin_url is not in the quote is not accepted, and is
\* rejected as person_linkedin_not_in_quote when its quote passes.
C18_NoFabricatedLinkedin ==
    vOut # NoResult =>
        LET LinkAbsent(p) ==
                /\ p.dict /\ p.linkedin_url.t = "str" /\ p.linkedin_url.s # <<>>
                /\ p.evidence_quote.t = "str"
                /\ ~Contains(p.evidence_quote.s, p.linkedin_url.s)
            RejectedForLink(p) == LinkAbsent(p) /\ QuoteFound(p)
        IN  /\ \A p \in Range(vOut.accepted.people) :
                  \/ p.linkedin_url.t = "none"
                  \/ p.linkedin_url.s = <<>>
                  \/ Contains(p.evidence_quote.s, p.linkedin_url.s)
            /\ \A p \in Range(vIn.extraction.people) :
                  LinkAbsent(p) => p \notin Range(vOut.accepted.people)
            /\ CountReason("person_linkedin_not_in_quote") =
                  Cardinality({k \in 1..Len(vIn.extraction.people) :
                      RejectedForLink(vIn.extraction.people[k])})

\* C18 witness: a call that accepted a Person whose linkedin_url is in the
\* quote and one with an empty linkedin_url, and rejected one whose
\* linkedin_url is not in the quote
C18_Witness_LinkCheckedBothWays ==
    /\ vOut # NoResult
    /\ \E p \in Range(vOut.accepted.people) :
          p.linkedin_url.t = "str" /\ p.linkedin_url.s # <<>>
    /\ \E p \in Range(vOut.accepted.people) : p.linkedin_url = Str(<<>>)
    /\ CountReason("person_linkedin_not_in_quote") = 1

\* C19: every Event accepted by validate_extraction_for_chunk has a type in
\* the fixed set of event kinds and every accepted FundingRound a round_type
\* in the fixed set of round kinds; a candidate with another or a missing
\* type is rejected as event_bad_type / funding_bad_round_type even when its
\* quote is in the text.
C19_AcceptedTypesAreEnumerated ==
    vOut # NoResult =>
        /\ \A e \in Range(vOut.accepted.events) :
              e.type.t = "str" /\ e.type.s \in EVENT_TYPES
        /\ \A f \in Range(vOut.accepted.funding_rounds) :
              f.round_type.t = "str" /\ f.round_type.s \in ROUND_TYPES
        /\ \A e \in Range(vIn.extraction.events) :
              (e.dict /\ e.type.t # "num" /\ StrOf(e.type) \notin EVENT_TYPES) =>
                  e \notin Range(vOut.accepted.events)
        /\ \A f \in Range(vIn.extraction.funding_rounds) :
              (f.dict /\ f.round_type.t # "num"
                      /\ StrOf(f.round_type) \notin ROUND_TYPES) =>
                  f \notin Range(vOut.accepted.funding_rounds)

\* validate_extraction_for_chunk on the payload that has only the k-th
\* candidate of one list of the call's payload
Alone(list, k) ==
    LET none == [extractor_version |-> vIn.extraction.extractor_version,
                 people |-> <<>>, events |-> <<>>, funding_rounds |-> <<>>]
        one == CASE list = "people" ->
                      [none EXCEPT !.people = <<vIn.extraction.people[k]>>]
                 [] list = "events" ->
                      [none EXCEPT !.events = <<vIn.extraction.events[k]>>]
                 [] OTHER ->
                      [none EXCEPT !.funding_rounds =
                                      <<vIn.extraction.funding_rounds[k]>>]
    IN  validate_extraction_for_chunk(one, vIn.chunk_text)

\* C20: validate_extraction_for_chunk returns whatever single candidates are
\* malformed: each candidate that is not an object or has a number for its
\* quote is counted once in rejected under a *_exception reason, and every
\* candidate that is accepted on its own is accepted before or after it.
C20_MalformedCandidateIsolated ==
    vOut # NoResult =>
        LET x == vIn.extraction
            OkAlone(list, items) ==
                {k \in 1..Len(items) :
                    LET a == Alone(list, k).stats
                    IN  a.people_ok + a.events_ok + a.funding_ok = 1}
            Sub(items, ks) == [j \in 1..Cardinality(ks) |->
                                 items[CHOOSE k \in ks :
                                          Cardinality({m \in ks : m < k}) = j - 1]]
        IN  /\ vOut.stats.rejected = Len(vOut.stats.reject_reasons)
            /\ vOut.stats.people_ok + vOut.stats.events_ok + vOut.stats.funding_ok
                  + vOut.stats.rejected
               = Len(x.people) + Len(x.events) + Len(x.funding_rounds)
            /\ CountReason("person_exception") >= CountMalformed(x.people)
            /\ CountReason("event_exception") >= CountMalformed(x.events)
            /\ CountReason("funding_exception")
                  >= CountMalformed(x.funding_rounds)
            /\ \A k \in 1..Len(x.people) :
                  Malformed(x.people[k]) => x.people[k] \notin Range(vOut.accepted.people)
            /\ vOut.accepted.people = Sub(x.people, OkAlone("people", x.people))
            /\ vOut.accepted.events = Sub(x.events, OkAlone("events", x.events))
            /\ vOut.accepted.funding_rounds =
                  Sub(x.funding_rounds, OkAlone("funding", x.funding_rounds))

\* C20 witness: a call whose people list has a well-formed candidate, then
\* one that is not an object, then a well-formed one, both accepted
C20_Witness_MalformedBetweenAccepted ==
    /\ vOut # NoResult
    /\ Len(vIn.extraction.people) = 3
    /\ ~vIn.extraction.people[2].dict
    /\ Len(vOut.accepted.people) = 2
    /\ vOut.stats.reject_reasons = <<"person_exception">>

\* the identity key persist gives a sighting, and the last sighting of each
\* key among those a payload persists
NameKey(p) == _norm_name(OrEmptyStrip(p.name))

LastSightings(accepted) ==
    LET ps == PersistedPeople(accepted)
    IN  {ps[k] : k \in {j \in 1..Len(ps) :
                          \A h \in (j + 1)..Len(ps) : NameKey(ps[h]) # NameKey(ps[j])}}

\* C21: after any sequence of persist calls for one company the stored role
\* of each Person is the trimmed role of the most recently persisted sighting
\* of its normalized name, an empty role included: a persist that returns
\* sets the role of every name it sights to the last role it gives for that
\* name and leaves every other row's role alone; one that raises changes none.
C21_RoleIsLatestSighting ==
    last.op = "persist" =>
        IF last.raised THEN db.people = last.pre.people
        ELSE LET a == last.arg.accepted
                 c == last.company_id
             IN  /\ \A p \in LastSightings(a) :
                        /\ PersonRowsOf(c, p) # {}
                        /\ \A i \in PersonRowsOf(c, p) :
                              db.people[i].role = OrEmptyStrip(p.role)
                 /\ \A i \in 1..Len(last.pre.people) :
                        (\A p \in Range(PersistedPeople(a)) :
                            i \notin PersonRowsOf(c, p))
                        => db.people[i].role = last.pre.people[i].role

\* a stored, non-empty role is replaced by the empty role of a later sighting
C21_Witness_EmptyRoleOverwrites ==
    /\ last.op = "persist" /\ ~last.raised
    /\ \E i \in 1..Len(last.pre.people) :
          /\ last.pre.people[i].role # <<>>
          /\ db.people[i].role = <<>>
          /\ \E p \in LastSightings(last.arg.accepted) :
                i \in PersonRowsOf(last.company_id, p) /\ ~Truthy(p.role)

\* the most recent non-null linkedin_url among `stored` and the sightings of
\* `key` in ps, in order
RECURSIVE LatestLink(_, _, _)
LatestLink(stored, ps, key) ==
    IF ps = <<>> THEN stored
    ELSE LatestLink(IF NameKey(Head(ps)) = key /\ Truthy(Head(ps).linkedin_url)
                    THEN Head(ps).linkedin_url ELSE stored,
                    Tail(ps), key)

\* C22: a sighting with a null or empty linkedin_url never changes a stored
\* linkedin_url and a sighting with a non-null one replaces it: after a
\* persist that returns, every Person row holds the most recent non-null
\* linkedin_url among the one it held before and those the payload supplies
\* for its name, and null when there is none.
C22_LinkedinIsLatestNonNull ==
    (last.op = "persist" /\ ~last.raised) =>
        \A i \in 1..Len(db.people) :
            LET stored == IF i <= Len(last.pre.people)
                          THEN last.pre.people[i].linkedin_url ELSE None
            IN  db.people[i].linkedin_url =
                    IF db.people[i].company_id = last.company_id
                    THEN LatestLink(stored, PersistedPeople(last.arg.accepted),
                                    db.people[i].normalized_name)
                    ELSE stored

\* a stored link survives a sighting without one, after having replaced an
\* earlier link
C22_Witness_LinkKeptThenReplaced ==
    /\ last.op = "persist" /\ ~last.raised
    /\ prev.op = "persist" /\ ~prev.raised
    /\ \E i \in 1..Len(prev.pre.people) :
          /\ prev.pre.people[i].linkedin_url = Str(<<"li">>)
          /\ last.pre.people[i].linkedin_url = Str(<<"li2">>)
          /\ db.people[i].linkedin_url = Str(<<"li2">>)
          /\ \E p \in Range(PersistedPeople(last.arg.accepted)) :
                i \in PersonRowsOf(last.company_id, p) /\ ~Truthy(p.linkedin_url)

\* the Person rows of a company whose name folds (accents, punctuation, case)
\* to the same name as the sighting p
FoldedRowsOf(company_id, p) ==
    {i \in 1..Len(db.people) :
        /\ db.people[i].company_id = company_id
        /\ normalize_person_name(db.people[i].name)
               = normalize_person_name(OrEmptyStrip(p.name))}

\* C23: two sightings for the same company whose names differ only by
\* accents, punctuation or letter case go to the same Person row: after a
\* persist that returns, each sighting it persisted has exactly one row of
\* the company whose name folds to the sighting's folded name.
C23_FoldedNamesShareOneRow ==
    (last.op = "persist" /\ ~last.raised) =>
        \A p \in Range(PersistedPeople(last.arg.accepted)) :
            Cardinality(FoldedRowsOf(last.company_id, p)) = 1

\* the identity key (company_id, type, date, title_hash) persist gives an
\* event candidate, and the rows of `events` that carry it
EventKey(company_id, e) ==
    <<company_id, OrEmptyStrip(e.type), e.date, _title_hash(OrEmptyStrip(e.title))>>

RowsWithKey(events, key) ==
    {i \in 1..Len(events) :
        <<events[i].company_id, events[i].type, events[i].date,
          events[i].title_hash>> = key}

\* C24: when persist meets an existing Event with the same (company_id, type,
\* date, title_hash), no new Event row is created and only summary is
\* overwritten: the rows with that key are the ones there before, with the
\* type, date, title and title_hash of the first insert and the summary of
\* the payload's last event with the key.
C24_EventConflictOverwritesSummaryOnly ==
    (last.op = "persist" /\ ~last.raised) =>
        LET ps == PersistedEvents(last.arg.accepted)
            c == last.company_id
        IN  \A k \in 1..Len(ps) :
                LET key == EventKey(c, ps[k])
                    old == RowsWithKey(last.pre.events, key)
                IN  old # {} =>
                      /\ RowsWithKey(db.events, key) = old
                      /\ \A i \in old :
                            /\ db.events[i].type = last.pre.events[i].type
                            /\ db.events[i].date = last.pre.events[i].date
                            /\ db.events[i].title = last.pre.events[i].title
                            /\ db.events[i].title_hash = last.pre.events[i].title_hash
                            /\ (\A h \in (k + 1)..Len(ps) : EventKey(c, ps[h]) # key)
                                  => db.events[i].summary = OrEmptyStrip(ps[k].summary)

\* a table without the timestamps of its rows
NoTimes(rows) ==
    [i \in 1..Len(rows) |->
        [f \in (DOMAIN rows[i]) \ {"created_at", "updated_at"} |-> rows[i][f]]]

\* the Person and Event tables of `a` are those of `b`
SameEntities(a, b) ==
    /\ NoTimes(a.people) = NoTimes(b.people)
    /\ NoTimes(a.events) = NoTimes(b.events)

\* every Person and Event row of `pre` is still in `post`, under the same id
\* and identity
RowsIntact(pre, post) ==
    /\ Len(pre.people) <= Len(post.people)
    /\ \A i \in 1..Len(pre.people) :
          /\ post.people[i].company_id = pre.people[i].company_id
          /\ post.people[i].normalized_name = pre.people[i].normalized_name
          /\ post.people[i].created_at = pre.people[i].created_at
    /\ Len(pre.events) <= Len(post.events)
    /\ \A i \in 1..Len(pre.events) :
          /\ post.events[i].company_id = pre.events[i].company_id
          /\ post.events[i].type = pre.events[i].type
          /\ post.events[i].title_hash = pre.events[i].title_hash
          /\ post.events[i].created_at = pre.events[i].created_at
    /\ IsPrefix(pre.evidence, post.evidence)

\* the latest run is a complete re-run of the killed run before it: same
\* company, same sources, same triage labels and extraction results
IsRerunOfKilled ==
    /\ last.op = "run_extract_all" /\ prev.op = "run_extract_all_killed"
    /\ last.company_id = prev.company_id
    /\ Len(xrun) >= Len(prev.arg.llm)
    /\ \A k \in 1..Len(prev.arg.llm) :
          /\ xrun[k].labels = prev.arg.labels[k]
          /\ xrun[k].extraction = prev.arg.llm[k]

\* C25: when run_extract_all is interrupted after a committed prefix of chunks
\* and then re-run over the same sources with the same extraction results,
\* the rows committed before stay and the Person and Event tables are those
\* of one uninterrupted run from the same start (only Evidence has more rows).
C25_RerunAfterInterruptConverges ==
    IsRerunOfKilled =>
        /\ RowsIntact(last.pre, db)
        /\ SameEntities(db, run_extract_all(prev.pre, sources, last.company_id,
                                            [k \in 1..Len(xrun) |-> xrun[k].labels],
                                            [k \in 1..Len(xrun) |-> xrun[k].extraction],
                                            0).db)

\* the evidence rows transaction t appended for an entity row
EvidenceFrom(t, object_type, object_id) ==
    {k \in 1..Len(db.evidence) :
        /\ db.evidence[k].object_type = object_type
        /\ db.evidence[k].object_id = object_id
        /\ db.evidence[k].source_id = txs[t].source_id}

\* pairs of candidates, one of each call, with the same identity key
SharedPeople ==
    {pp \in Range(PersistedPeople(txs[1].accepted))
              \X Range(PersistedPeople(txs[2].accepted)) :
        NameKey(pp[1]) = NameKey(pp[2])}

SharedEvents ==
    {ee \in Range(PersistedEvents(txs[1].accepted))
              \X Range(PersistedEvents(txs[2].accepted)) :
        EventKey("c1", ee[1]) = EventKey("c1", ee[2])}

BothEnded == \A t \in Txs : txs[t].status \in {"committed", "aborted"}

\* C26: two persist transactions of one company that interleave and carry
\* the same person or event identity key both complete without conflict and
\* leave exactly one entity row for that key, with one Evidence row from each
\* transaction, whatever the interleaving (a transaction whose own statement
\* fails, whatever the other does, is no conflict between the two).
C26_ConcurrentPersistsConverge ==
    (/\ txs # NoTxs /\ BothEnded
     /\ SharedPeople # {} \/ SharedEvents # {}
     /\ \A t \in Txs : txs[t].error # "statement") =>
        /\ \A t \in Txs : txs[t].status = "committed"
        /\ \A pp \in SharedPeople :
              /\ Cardinality(PersonRowsOf("c1", pp[1])) = 1
              /\ \A i \in PersonRowsOf("c1", pp[1]), t \in Txs :
                    EvidenceFrom(t, "person", i) # {}
        /\ \A ee \in SharedEvents :
              /\ Cardinality(RowsWithKey(db.events, EventKey("c1", ee[1]))) = 1
              /\ \A i \in RowsWithKey(db.events, EventKey("c1", ee[1])), t \in Txs :
                    EvidenceFrom(t, "event", i) # {}

-----------------------------------------------------------------------------
(* chunk_text *)

ChunkDone == vOut # NoResult /\ "chunks" \in DOMAIN vOut

RawText == IF vIn.clean_text.t = "str" THEN vIn.clean_text.s ELSE <<>>

\* C27 as stated: an input of at least 200 characters gives at least one
\* chunk and an input of fewer than 200 characters gives none.
C27_ChunksIffTwoHundredChars ==
    ChunkDone =>
        /\ TLen(RawText) >= 200 => Len(vOut.chunks) >= 1
        /\ TLen(RawText) < 200 => Len(vOut.chunks) = 0

\* C27 amended: an input whose length without its leading and trailing
\* whitespace is at least 200 characters gives at least one chunk when
\* max_chunks >= 1, and an input whose length without that whitespace is
\* under 200 characters gives none.
C27_ChunksIffTwoHundredStrippedChars ==
    ChunkDone =>
        /\ (TLen(TStrip(RawText)) >= 200 /\ vIn.max_chunks >= 1)
              => Len(vOut.chunks) >= 1
        /\ TLen(TStrip(RawText)) < 200 => Len(vOut.chunks) = 0

\* an input of 200 characters or more, fewer than 200 without its
\* surrounding whitespace, has been chunked, and so has a padded one that
\* is long enough
C27_Witness_PaddedInput ==
    /\ ChunkDone
    /\ TStrip(RawText) # RawText
    /\ \/ TLen(RawText) >= 200 /\ TLen(TStrip(RawText)) < 200
       \/ TLen(TStrip(RawText)) >= 200 /\ Len(vOut.chunks) >= 1

InputParagraphs == Paragraphs(SplitLines(Stripped(vIn.clean_text)), <<>>, <<>>)

\* the input is one paragraph longer than max_chars
SingleLongParagraph ==
    /\ ChunkDone
    /\ LongEnough(vIn.clean_text)
    /\ Len(InputParagraphs) = 1
    /\ TLen(InputParagraphs[1]) > vIn.max_chars

CeilDiv(a, b) == (a + b - 1) \div b

\* the i-th of the consecutive pieces of max_chars characters of p
Piece(p, max_chars, i) == TSlice(p, (i - 1) * max_chars, i * max_chars)

Pieces(p, max_chars) ==
    [i \in 1..CeilDiv(TLen(p), max_chars) |-> Piece(p, max_chars, i)]

KeptPieces(p, max_chars) == SelectSeq(Pieces(p, max_chars), NotBlank)

C29_ChunksWithinLimits ==
    (ChunkDone /\ vIn.max_chars >= 1 /\ vIn.max_chunks >= 0) =>
        /\ Len(vOut.chunks) <= vIn.max_chunks
        /\ \A i \in 1..Len(vOut.chunks) :
              /\ vOut.chunks[i].text # <<>>
              /\ TLen(vOut.chunks[i].text) >= 1
              /\ TLen(vOut.chunks[i].text) <= vIn.max_chars

\* two paragraphs were packed into one chunk, two characters short of
\* max_chars, and the output holds as many chunks as max_chunks allows
C29_Witness_PackedAndCut ==
    /\ ChunkDone
    /\ Len(vOut.chunks) = vIn.max_chunks
    /\ \E i \in 1..Len(vOut.chunks) :
          /\ \E j \in 1..Len(vOut.chunks[i].text) :
                vOut.chunks[i].text[j] = Run("\n", 2)
          /\ TLen(vOut.chunks[i].text) + 2 = vIn.max_chars

-----------------------------------------------------------------------------
(* triage_chunk *)

TriageDone == vOut # NoResult /\ "labels" \in DOMAIN vOut

\* C30: a text of fewer than 250 characters once its whitespace is
\* normalized gets exactly the label irrelevant with confidence 0.9 (90
\* hundredths), whatever keywords it contains.
C30_ShortTextIsIrrelevant ==
    (TriageDone /\ TLen(Normalized(vIn.chunk)) < 250) =>
        /\ vOut.labels = <<"irrelevant">>
        /\ vOut.confidence = 90

\* a text of 250 characters or more, under 250 once normalized, that names
\* two founder keywords and a role was triaged
C30_Witness_ShortTextWithKeywords ==
    /\ TriageDone
    /\ TLen(vIn.chunk) >= 250
    /\ TLen(Normalized(vIn.chunk)) < 250
    /\ _score_keywords(TLower(Normalized(vIn.chunk)), FOUNDERS_KW) >= 2
    /\ RoleHits(TLower(Normalized(vIn.chunk)), 1) >= 1
    /\ vOut.reason = <<"too_short">>

\* C31: the label list is never empty, irrelevant never comes with another
\* label, the confidence lies in [0.60, 0.95] when a label other than
\* irrelevant fires and in [0.65, 0.90] when the result is irrelevant.
C31_LabelsAndConfidenceInRange ==
    TriageDone =>
        /\ vOut.labels # <<>>
        /\ (\E i \in 1..Len(vOut.labels) : vOut.labels[i] = "irrelevant")
              => vOut.labels = <<"irrelevant">>
        /\ vOut.labels # <<"irrelevant">>
              => (60 <= vOut.confidence /\ vOut.confidence <= 95)
        /\ vOut.labels = <<"irrelevant">>
              => (65 <= vOut.confidence /\ vOut.confidence <= 90)

\* line 103: the signal of a lower-case normalized text
SignalOf(tl) ==
    _score_keywords(tl, FOUNDERS_KW) + _score_keywords(tl, FUNDING_KW)
    + _score_keywords(tl, COMMERCIAL_KW) + _score_keywords(tl, PRODUCT_KW)
    + min(RoleHits(tl, 1), 3)

\* two labels fired on a signal of 6 or more, which 0.55 + 0.07 * signal
\* would take over 0.95
C31_Witness_ConfidenceCapped ==
    /\ TriageDone
    /\ Len(vOut.labels) >= 2
    /\ vOut.confidence = 95
    /\ SignalOf(TLower(Normalized(vIn.chunk))) >= 6

-----------------------------------------------------------------------------
(* the example through chunk_text and triage_chunk *)

ExampleDone == vOut # NoResult /\ "triage" \in DOMAIN vOut

\* the labels of a verdict as a set
LabelSet(verdict) == {verdict.labels[i] : i \in 1..Len(verdict.labels)}

\* C32 as stated: the example padded to 200 characters or more gives
\* exactly one chunk, and that chunk the labels founders_team and funding.
C32_ExampleOneChunkTwoLabels ==
    (ExampleDone /\ TLen(vIn.clean_text.s) >= 200) =>
        /\ Len(vOut.chunks) = 1
        /\ LabelSet(vOut.triage[1]) = {"founders_team", "funding"}

\* C32 amended: the example padded by one block of letters to at least 250
\* and at most 2396 characters, counted after whitespace normalization,
\* gives exactly one chunk, and that chunk the labels founders_team and
\* funding.
C32_ExampleOfFittingLength ==
    (ExampleDone /\ TLen(Normalized(vIn.clean_text.s)) >= 250
                 /\ TLen(Normalized(vIn.clean_text.s)) <= 2396) =>
        /\ Len(vOut.chunks) = 1
        /\ LabelSet(vOut.triage[1]) = {"founders_team", "funding"}

\* the example padded to exactly 250 normalized characters went through
C32_Witness_ShortestLabelledExample ==
    /\ ExampleDone
    /\ TLen(Normalized(vIn.clean_text.s)) = 250
    /\ Len(vOut.chunks) = 1
    /\ vOut.triage[1].labels = <<"founders_team", "funding">>
    /\ vOut.triage[1].confidence = 95

-----------------------------------------------------------------------------
(* fetch_url *)

PermanentSkip == {Answer(c) : c \in {401, 402, 403, 404, 410}}
RetryWorthy == {Answer(429)} \cup {Raise(e) : e \in Raised}

LastRequest == vOut.requests[Len(vOut.requests)]

\* C33: fetch_url makes at most retries + 1 requests; a permanent-skip
\* status ends it at once without html; a 429, a timeout or a network
\* error is tried again while attempts remain and ends it without html
\* when none remains; no exception escapes.
C33_FetchUrlBoundedRetry ==
    ("pc" \in DOMAIN vOut) =>
        /\ Len(vOut.requests) <= vOut.retries + 1
        /\ vOut.pc # "raised" /\ ~vOut.escaped
        /\ \A i \in 1..Len(vOut.requests) :
              vOut.requests[i] \in PermanentSkip
                 => /\ i = Len(vOut.requests)
                    /\ vOut.pc = "returned"
                    /\ ~vOut.html
                    /\ vOut.status = vOut.requests[i].code
        /\ \A i \in 1..(Len(vOut.requests) - 1) : vOut.requests[i] \in RetryWorthy
        /\ (vOut.requests # <<>> /\ LastRequest \in RetryWorthy)
              => IF Len(vOut.requests) <= vOut.retries
                 THEN vOut.pc = "loop" /\ vOut.attempt = Len(vOut.requests)
                 ELSE vOut.pc = "returned" /\ ~vOut.html
        /\ vOut.pc = "loop" => vOut.attempt <= vOut.retries

\* a 429, a timeout and a network error used up the three attempts
C33_Witness_RetriesExhausted ==
    /\ "pc" \in DOMAIN vOut
    /\ vOut.pc = "returned"
    /\ vOut.retries = 2
    /\ Len(vOut.requests) = 3
    /\ vOut.requests[1] = Answer(429)
    /\ vOut.requests[2] = Raise("TimeoutException")
    /\ vOut.requests[3] = Raise("ConnectError")
    /\ ~vOut.html

-----------------------------------------------------------------------------
(* the guards of persist_accepted_extraction *)

\* the field is missing, empty or blank
EmptyField(v) == v.t \in {"none", "str"} /\ OrEmptyStrip(v) = <<>>

KeptPerson(p) == ~(p.dict /\ (EmptyField(p.name) \/ EmptyField(p.evidence_quote)))
KeptEvent(e) ==
    ~(e.dict /\ (EmptyField(e.type) \/ EmptyField(e.title)
                 \/ EmptyField(e.evidence_quote)))
KeptFunding(fr) ==
    ~(fr.dict /\ (EmptyField(fr.round_type) \/ EmptyField(fr.evidence_quote)))

\* the payload without the items the claim says are passed over
WithoutGuarded(accepted) ==
    [accepted EXCEPT !.people = SelectSeq(@, KeptPerson),
                     !.events = SelectSeq(@, KeptEvent),
                     !.funding_rounds = SelectSeq(@, KeptFunding)]

\* the latest persist ended as the call r did
EndedAs(r) == db = r.db /\ last.raised = r.raised /\ last.ret = r.ret

HasGuarded(accepted) == WithoutGuarded(accepted) # accepted

\* C34: the items with an empty name or quote (people), type, title or
\* quote (events), round_type or quote (funding) leave no trace: the tables
\* and the counters after the call are those of the same call on the
\* payload without these items.
C34_GuardedItemsLeaveNoTrace ==
    (last.op = "persist" /\ HasGuarded(last.arg.accepted)) =>
        EndedAs(persist_accepted_extraction(last.pre, schema.updated_at_trigger,
                                            last.company_id, last.arg.source_id,
                                            last.arg.url,
                                            WithoutGuarded(last.arg.accepted), clock))

\* s is t with some elements left out, the others in their order
IsSubSequence(s, t) ==
    \E ks \in SUBSET (1..Len(t)) :
        /\ Cardinality(ks) = Len(s)
        /\ \A j \in 1..Len(s) :
              s[j] = t[CHOOSE k \in ks : Cardinality({m \in ks : m < k}) = j - 1]

\* C35: for every payload whose people, events and funding_rounds are lists
\* the stats of validate_extraction_for_chunk balance: the three *_in counts
\* are the lengths of the input lists and add up to the three *_ok counts
\* plus rejected, reject_reasons has one entry per rejection, each *_ok is
\* the length of its accepted list, and each accepted list is its input list
\* with some candidates left out, the others in their order.
C35_StatsBalance ==
    vOut # NoResult =>
        LET x == vIn.extraction
            st == vOut.stats
            acc == vOut.accepted
        IN  /\ st.people_in = Len(x.people)
            /\ st.events_in = Len(x.events)
            /\ st.funding_in = Len(x.funding_rounds)
            /\ st.people_in + st.events_in + st.funding_in
                  = st.people_ok + st.events_ok + st.funding_ok + st.rejected
            /\ Len(st.reject_reasons) = st.rejected
            /\ st.people_ok = Len(acc.people)
            /\ st.events_ok = Len(acc.events)
            /\ st.funding_ok = Len(acc.funding_rounds)
            /\ IsSubSequence(acc.people, x.people)
            /\ IsSubSequence(acc.events, x.events)
            /\ IsSubSequence(acc.funding_rounds, x.funding_rounds)

\* C35 witness: a call over three candidates of which the first is rejected
\* by a test, the second raises and the third is accepted
C35_Witness_RejectedRaisedAccepted ==
    /\ vOut # NoResult
    /\ vOut.stats.people_in + vOut.stats.events_in + vOut.stats.funding_in = 3
    /\ vOut.stats.people_ok + vOut.stats.events_ok + vOut.stats.funding_ok = 1
    /\ Len(vOut.stats.reject_reasons) = 2
    /\ vOut.stats.reject_reasons[1] = "person_linkedin_not_in_quote"
    /\ vOut.stats.reject_reasons[2] = "event_exception"
    /\ Len(vOut.accepted.funding_rounds) = 1

\* the title and identity key persist gives a funding round, and the Evidence
\* rows a call appended to `pre` for funding rounds
FundingTitle(fr) == Upper(OrEmptyStrip(fr.round_type)) \o <<" ", "round">>

FundingKey(company_id, fr) ==
    <<company_id, <<"funding">>, fr.date, _title_hash(FundingTitle(fr))>>

FundingEvidence(pre, post) ==
    {i \in (Len(pre.evidence) + 1)..Len(post.evidence) :
        post.evidence[i].field = "funding.round"}

\* C36: each funding round persist stores is an Event of type funding titled
\* '<ROUND_TYPE> round' under the identity (company_id, funding, date,
\* title_hash): after a persist that returns, every round it stored has
\* exactly one Event row with its identity, whatever was persisted before,
\* that row carries the title and the summary of the last round of the
\* payload with that identity, every round has appended an Evidence row of
\* its own that cites the row, and nothing but events and evidence is written.
C36_FundingRoundIsOneFundingEvent ==
    (last.op = "persist" /\ ~last.raised) =>
        LET fs == PersistedFunding(last.arg.accepted)
            c == last.company_id
        IN  /\ Cardinality(FundingEvidence(last.pre, db)) = Len(fs)
            /\ db.changes = last.pre.changes
            /\ \A k \in 1..Len(fs) :
                  LET key == FundingKey(c, fs[k])
                      rows == RowsWithKey(db.events, key)
                  IN  /\ Cardinality(rows) = 1
                      /\ \A i \in rows :
                            /\ db.events[i].title = FundingTitle(fs[k])
                            /\ (\A h \in (k + 1)..Len(fs) : FundingKey(c, fs[h]) # key)
                                  => db.events[i].summary =
                                        FundingSummary(OrEmptyStrip(fs[k].round_type),
                                                       fs[k].amount, fs[k].currency,
                                                       fs[k].investors)
                            /\ \E j \in FundingEvidence(last.pre, db) :
                                  /\ db.evidence[j].object_type = "event"
                                  /\ db.evidence[j].object_id = db.events[i].event_id
                                  /\ db.evidence[j].value = OrEmptyStrip(fs[k].round_type)

\* the Source row of (c1, url) is pending and every fetch of url yields a page
PendingFetchable(url) ==
    /\ \E i \in Pending(sources, "c1") : sources[i].url = url
    /\ vIn.pages[url].t # "none"

\* the Source row of (c1, url) holds fetched content
Stored(url) ==
    \E i \in SourceAt(sources, "c1", url) :
        sources[i].clean_text.t # "none" /\ sources[i].content_hash.t # "none"

\* C37: under repeated fetch_pending runs with a fixed limit every pending
\* Source whose url is fetchable is eventually fetched and stored, whatever
\* other pending Sources of the company keep failing or being skipped.
C37_FetchableSourceEventuallyStored ==
    \A url \in LiveUrls : PendingFetchable(url) ~> Stored(url)

\* row i of the table an operation started from is as it was
RowKept(i) == i <= Len(sources) /\ sources[i] = last.pre[i]

\* C38: after any sequence of discover, web_search and fetch operations there
\* is at most one Source row per (company_id, url); discover_sources and
\* web_search_company leave every existing row as it was (source_type,
\* fetched_at, content_hash and clean_text included), and fetch_and_store
\* writes nothing when the hash of the fetched content is the stored one.
C38_OneSourcePerUrl ==
    /\ \A i, j \in 1..Len(sources) :
          (sources[i].company_id = sources[j].company_id
              /\ sources[i].url = sources[j].url) => i = j
    /\ last.op \in {"discover", "web_search"} =>
          \A i \in 1..Len(last.pre) : RowKept(i)
    /\ last.op = "fetch" =>
          \A i \in SourceAt(last.pre, last.company_id, last.arg.url) :
              last.pre[i].content_hash = last.arg.page => sources = last.pre

\* C38 witness: a stored Source has met a discovery that lists its url and
\* then a fetch that yields the content it already holds
C38_Witness_RefetchedUnchanged ==
    /\ last.op = "fetch" /\ prev.op = "discover"
    /\ \E i \in SourceAt(last.pre, last.company_id, last.arg.url) :
          /\ last.arg.page.t # "none"
          /\ last.pre[i].content_hash = last.arg.page
          /\ sources[i].fetched_at = Num(<<1>>)
          /\ \E r \in 1..Len(prev.arg) : prev.arg[r][1] = last.arg.url
          /\ prev.company_id = last.company_id
    /\ clock = 3

-----------------------------------------------------------------------------
(* chunk_text on page texts made of paragraphs *)

\* paragraphs of one or two words, short and longer than a chunk
ParaTexts ==
    {<<Run("x", 40)>>, <<Run("y", 40)>>, <<Run("x", 120)>>,
     <<Run("y", 60), Run(" ", 1), Run("x", 60)>>, <<Run("x", 250)>>}

\* the page texts of at most n paragraphs parted by blank lines
ParaPages(n) ==
    {Join(ps, <<Run("\n", 2)>>) : ps \in UNION {SeqN(ParaTexts, k) : k \in 1..n}}

InitParagraphs ==
    /\ vIn \in [clean_text : {Str(t) : t \in ParaPages(MaxParas)},
                max_chars : {100, 304, 2400},
                max_chunks : {1, 3}]
    /\ vOut = NoResult
    /\ xrun = <<>>
    /\ InitDb
    /\ schema = [funding_rounds |-> FALSE, updated_at_trigger |-> FALSE]

NextParagraphs == ChunkCall

SpecParagraphs == InitParagraphs /\ [][NextParagraphs]_vars

\* the characters of a text that are not white space, in order
NotSpace(run) == run.c \notin WS

Ink(t) == Canon(SelectSeq(t, NotSpace))

\* the characters of the chunks, read in order
RECURSIVE InkOfChunks(_)
InkOfChunks(chunks) ==
    IF chunks = <<>> THEN <<>>
    ELSE TCat(Ink(Head(chunks).text), InkOfChunks(Tail(chunks)))

\* the paragraphs of a page text, as lines 14-30 of chunk.py find them
ParasOf(clean_text) ==
    ParasOrText(Paragraphs(SplitLines(Stripped(clean_text)), <<>>, <<>>),
                Stripped(clean_text))

\* C39: the chunks chunk_text returns are numbered 1..n and, read in order,
\* are the paragraphs of the source in source order from the first one on:
\* the characters of the chunks are an initial part of the characters of the
\* paragraphs, nothing repeated, reordered or left out before the end of the
\* last chunk.
C39_ChunksFollowTheParagraphs ==
    vOut # NoResult =>
        /\ \A i \in 1..Len(vOut.chunks) : vOut.chunks[i].idx = i
        /\ InkOfChunks(vOut.chunks)
              = TTake(Ink(Join(ParasOf(vIn.clean_text), <<Run("\n", 2)>>)),
                      TLen(InkOfChunks(vOut.chunks)))
        /\ Ink(Join(ParasOf(vIn.clean_text), <<Run("\n", 2)>>))
              = Ink(vIn.clean_text.s)

\* C39 witness: two short paragraphs packed into the first chunk, a long one
\* cut into the next chunks, and the output ended before the text is
C39_Witness_PackedCutAndEnded ==
    /\ vOut # NoResult
    /\ Len(ParasOf(vIn.clean_text)) = 3
    /\ Len(vOut.chunks) = 3
    /\ \E i \in 1..Len(vOut.chunks[1].text) : vOut.chunks[1].text[i].c = "\n"
    /\ Ink(vOut.chunks[1].text) = <<Run("x", 40), Run("y", 40)>>
    /\ TLen(InkOfChunks(vOut.chunks)) < TLen(Ink(vIn.clean_text.s))

====
